---- MODULE Spec2Model ----
(***************************************************************************)
(* Model of the application core of the portfolio page: the StateManager   *)
(* (state container with observers, src/js/main.js 257-425), the Logger    *)
(* (src/js/logger.js), the PerformanceMonitor (performance-monitor.js) and *)
(* the NavigationManager with its timers (src/js/ui-manager.js 176-415).   *)
(*                                                                         *)
(* Representation.  A dot-path string "a.b" is modelled by the sequence    *)
(* of its segments <<"a","b">>, which is what key.split('.') yields; the   *)
(* two are in bijection for the non-empty, dot-free segments used here.    *)
(* The nested state object is a function from the paths of its present     *)
(* own properties to their values; a property that holds a plain object    *)
(* maps to OBJ and its own properties are the paths below it.  JavaScript  *)
(* values are written as strings: "home" (a string), "TRUE"/"FALSE"        *)
(* (booleans), "0" (a number), NULL, UNDEF.  Only own properties are       *)
(* modelled: segment names are never names of Object.prototype.            *)
(***************************************************************************)
EXTENDS Integers, Sequences, FiniteSets, TLC

VARIABLES
    state,      \* StateManager.state
    observers,  \* StateManager.observers: Map key -> Set of callbacks (insertion order)
    logs,       \* Logger.logs
    handles,    \* <<key, cb>> for which subscribe has returned an unsubscribe function
    trace,      \* what the last operation did: calls of observers, subscribe/unsubscribe calls
    last,       \* the last operation: its arguments, result and the state before it
    reg,        \* registration history, folded from the traces
    logged,     \* the entries handed to addToHistory since the last clear, in order
    held,       \* the array a caller got from getLogs(), and what the caller did to it
    calls,      \* number of operations issued in the logger, metrics and navigation scenarios
    isSupported,\* PerformanceMonitor.isSupported
    metrics,    \* PerformanceMonitor.metrics: Map name -> durations recorded
    marks,      \* PerformanceMonitor.marks: the names with a start mark
    cycles,     \* the start/end cycles as the callers made them
    perf,       \* the last PerformanceMonitor operation: its arguments, result, state before it
    currentProjectIndex,  \* NavigationManager.currentProjectIndex
    classes,    \* the class list of each element of the page
    timers,     \* the pending setTimeout callbacks, in the order they were registered
    nav,        \* the last navigation request: its arguments and the state before it
    present,    \* the elements of the page that exist in the document
    schedule,   \* the delayed actions registered so far, those run and those that raised
    audioManager, \* AudioManager: enabled, isMobile, sounds
    playback,   \* the last play request and whether it started a playback
    body,       \* the class list of document.body
    app,        \* PortfolioApp: how initialize() ended, the error banner
    copy        \* the object a caller got from getState(), and what the caller did to it

storeVars == <<state, observers, handles, trace, last, reg, copy>>
logVars == <<logs, logged, held>>
perfVars == <<isSupported, metrics, marks, cycles, perf>>
navVars == <<currentProjectIndex, classes, timers, nav, present, schedule>>
audioVars == <<audioManager, playback, body>>

vars == <<state, observers, logs, handles, trace, last, reg,
          logged, held, calls, isSupported, metrics, marks, cycles, perf,
          currentProjectIndex, classes, timers, nav, present, schedule,
          audioManager, playback, body, app, copy>>

-----------------------------------------------------------------------------
(* Bounds *)

\* Operations are issued while the log history is shorter than this:
\* in the observer scenarios, the store scenarios and the path scenarios.
MaxObsLogged == 7
MaxStoreLogged == 5
MaxPathLogged == 5
MaxFrameLogged == 5
MaxNestedLogged == 6
MaxThemeCalls == 5

\* Operations issued in the logger scenarios, in the copy scenarios and in
\* the metrics scenarios.
MaxLogCalls == 3
MaxCopyCalls == 4
MaxStateCalls == 4
MaxPerfCalls == 5

\* Navigation requests issued in the navigation scenarios, and the number
\* of projects on the page (grid items and articles).
MaxNavCalls == 3
MaxFireCalls == 2
MaxBootCalls == 1
MaxSoundCalls == 3
MaxAbsentCalls == 1
MaxSerialCalls == 3
MaxAnyCalls == 2
NumProjects == 3

(* Program constants *)

\* Logger.maxLogs
maxLogs == 100

\* CONFIG.ANIMATION (milliseconds)
TRANSITION_DELAY == 200
LAYER_SWITCH_DELAY == 250
LAYER_OPACITY_DELAY == 300
HOME_ACTIVATION_DELAY == 350
PAPER_SOUND_DELAY == 750

\* the delay after which handleInitializationError removes its banner
BANNER_DELAY == 5000
STAR_DELAY == 500

\* CONFIG.CLASSES
LOADED == "loaded"
SOUND == "sound"
ACTIVE == "active"
TO_TOP == "to-top"
TO_BOTTOM == "to-bottom"
OPACITY_0 == "opacity-0"
NOT_ACTIVE_LAYER == "not-active-layer"
ACTIVE_LAYER == "active-layer"

-----------------------------------------------------------------------------
(* JavaScript values *)

UNDEF == "undefined"
NULL == "null"
OBJ == "{}"

\* a !== b is ~StrictEq(a, b); an object held in the tree never equals a new value
StrictEq(a, b) == a = b /\ a # OBJ

ROOT == <<>>

\* value of the object or property at path p (the root is the state object itself)
ValAt(st, p) ==
    IF p = ROOT THEN OBJ
    ELSE IF p \in DOMAIN st THEN st[p]
    ELSE UNDEF

IsPrefix(p, q) == Len(p) <= Len(q) /\ SubSeq(q, 1, Len(p)) = p

\* target[k] read on a value that is not null/undefined: own property or undefined
PropRead(st, p, k) ==
    IF ValAt(st, p) = OBJ THEN ValAt(st, Append(p, k)) ELSE UNDEF

\* value?.[k]
OptChain(st, p, k) ==
    IF ValAt(st, p) \in {NULL, UNDEF} THEN UNDEF ELSE PropRead(st, p, k)

\* target[k] = value on an object: the property is (re)defined, whatever hung below it is dropped
WriteLeaf(st, leaf, value) ==
    LET keep == {p \in DOMAIN st : ~IsPrefix(leaf, p)}
    IN [p \in keep \cup {leaf} |-> IF p = leaf THEN value ELSE st[p]]

\* this.state as assigned by the constructor
InitialState ==
    (<<"currentView">> :> "home") @@
    (<<"currentProjectIndex">> :> "0") @@
    (<<"soundEnabled">> :> "TRUE") @@
    (<<"theme">> :> "dark") @@
    (<<"isLoading">> :> "TRUE") @@
    (<<"animations">> :> OBJ) @@
    (<<"animations", "starsActive">> :> "FALSE") @@
    (<<"animations", "portfolio3DActive">> :> "FALSE")

\* this.state as assigned by reset()
ResetState ==
    (<<"currentView">> :> "home") @@
    (<<"currentProjectIndex">> :> "0") @@
    (<<"soundEnabled">> :> "TRUE") @@
    (<<"theme">> :> "dark") @@
    (<<"isLoading">> :> "FALSE") @@
    (<<"animations">> :> OBJ) @@
    (<<"animations", "starsActive">> :> "FALSE") @@
    (<<"animations", "portfolio3DActive">> :> "FALSE")

-----------------------------------------------------------------------------
(* Logger *)

LogEntry(level, message, key) == [level |-> level, message |-> message, key |-> key]

\* (mutants of addToHistory: nothing is evicted; the newest entry is evicted)
addToHistoryNoShift(lg, logEntry) == Append(lg, logEntry)
addToHistoryPop(lg, logEntry) ==
    IF Len(lg) + 1 > maxLogs THEN lg ELSE Append(lg, logEntry)

addToHistory(lg, logEntry) ==
    LET pushed == Append(lg, logEntry)
    IN IF Len(pushed) > maxLogs THEN Tail(pushed) ELSE pushed

debug(lg, message, key) == addToHistory(lg, LogEntry("DEBUG", message, key))
info(lg, message, key) == addToHistory(lg, LogEntry("INFO", message, key))
warn(lg, message, key) == addToHistory(lg, LogEntry("WARN", message, key))
error(lg, message, key) == addToHistory(lg, LogEntry("ERROR", message, key))

\* [...this.logs]: a new array holding the same entry objects
getLogs(lg) == lg

getLogsByLevel(lg, level) == SelectSeq(lg, LAMBDA log : log.level = level)

\* this.logs = []
clear(lg) == <<>>

-----------------------------------------------------------------------------
(* PerformanceMonitor.  The Performance API of the browser is taken to      *)
(* conform to its standard: a measure between two marks that were taken     *)
(* exists and has a duration, which the environment decides.  A returned    *)
(* null is NotFound, a returned value x is Found(x).  The quotient a / b    *)
(* is kept exact as the pair of a and b.                                    *)

NotFound == <<>>
Found(x) == <<x>>
Quot(a, b) == [num |-> a, den |-> b]

Monitor == [metrics |-> metrics, marks |-> marks, logs |-> logs, ret |-> NotFound]

startMeasure(p, name) ==
    IF ~isSupported THEN p
    ELSE [p EXCEPT !.marks = @ \cup {name},
                   !.logs = debug(p.logs, "Performance measure started: ", <<name>>)]

\* (mutants of endMeasure: a duration is recorded without a start mark;
\*  the start mark is kept)
endMeasureUnmatched(p, name, duration) ==
    IF ~isSupported THEN [p EXCEPT !.ret = NotFound]
    ELSE [p EXCEPT
            !.metrics = IF name \in DOMAIN @
                        THEN [@ EXCEPT ![name] = Append(@, duration)]
                        ELSE @ @@ (name :> <<duration>>),
            !.logs = IF name \in p.marks
                     THEN debug(p.logs, "Performance measure completed: ", <<name>>)
                     ELSE warn(p.logs, "No start mark found for: ", <<name>>),
            !.marks = @ \ {name},
            !.ret = IF name \in p.marks THEN Found(duration) ELSE NotFound]
endMeasureKeepMark(p, name, duration) ==
    IF ~isSupported THEN [p EXCEPT !.ret = NotFound]
    ELSE IF name \notin p.marks
    THEN [p EXCEPT !.logs = warn(p.logs, "No start mark found for: ", <<name>>),
                   !.ret = NotFound]
    ELSE [p EXCEPT
            !.metrics = IF name \in DOMAIN @
                        THEN [@ EXCEPT ![name] = Append(@, duration)]
                        ELSE @ @@ (name :> <<duration>>),
            !.logs = debug(p.logs, "Performance measure completed: ", <<name>>),
            !.ret = Found(duration)]

\* duration is measure.duration, the time between the two marks
endMeasure(p, name, duration) ==
    IF ~isSupported THEN [p EXCEPT !.ret = NotFound]
    ELSE IF name \notin p.marks
    THEN [p EXCEPT !.logs = warn(p.logs, "No start mark found for: ", <<name>>),
                   !.ret = NotFound]
    ELSE [p EXCEPT
            !.metrics = IF name \in DOMAIN @
                        THEN [@ EXCEPT ![name] = Append(@, duration)]
                        ELSE @ @@ (name :> <<duration>>),
            !.logs = debug(p.logs, "Performance measure completed: ", <<name>>),
            !.marks = @ \ {name},
            !.ret = Found(duration)]

RECURSIVE Sum(_)
Sum(durations) ==
    IF durations = <<>> THEN 0 ELSE durations[1] + Sum(Tail(durations))

Min(durations) ==
    CHOOSE d \in {durations[i] : i \in 1..Len(durations)} :
        \A i \in 1..Len(durations) : d <= durations[i]

Max(durations) ==
    CHOOSE d \in {durations[i] : i \in 1..Len(durations)} :
        \A i \in 1..Len(durations) : d >= durations[i]

getMetrics(mt, name) ==
    IF name \notin DOMAIN mt \/ Len(mt[name]) = 0 THEN NotFound
    ELSE LET durations == mt[name]
             sum == Sum(durations)
         IN Found([name |-> name,
                   count |-> Len(durations),
                   average |-> Quot(sum, Len(durations)),
                   min |-> Min(durations),
                   max |-> Max(durations),
                   total |-> sum])

\* clear()
monitorClear(p) ==
    [p EXCEPT !.metrics = <<>>, !.marks = {},
              !.logs = debug(p.logs, "Performance metrics cleared", ROOT)]

-----------------------------------------------------------------------------
(* AudioManager.  The operators take and return the record a of its fields: *)
(* enabled (a JavaScript value), isMobile and sounds, the Audio element of  *)
(* each preloaded clip with its muted flag.                                 *)

\* the keys of CONFIG.AUDIO
AUDIO ==
    {"CLICK", "CLICK_MOBILE", "HOVER", "HOVER_MOBILE", "HOVER2", "HOVER3",
     "PAPER", "PAPER_MOBILE", "PAPER_ABOUT_UP", "PAPER_ABOUT_UP_MOBILE",
     "PAPER_ABOUT_DOWN", "PAPER_ABOUT_DOWN_MOBILE", "SKIN", "SKIN_MOBILE"}

\* ToBoolean(v) of the values written here
Truthy(v) == v \notin {"FALSE", "0", "", NULL, UNDEF}

\* !v
Not(v) == IF Truthy(v) THEN "FALSE" ELSE "TRUE"

\* (mutant of updateMuteState: the clips are left as they are)
updateMuteStateSkipped(a) == a

updateMuteState(a) ==
    [a EXCEPT !.sounds = [k \in DOMAIN @ |-> [muted |-> ~Truthy(a.enabled)]]]

NewAudioManager(isMobile) ==
    updateMuteState([enabled |-> "TRUE", isMobile |-> isMobile,
                     sounds |-> [k \in AUDIO |-> [muted |-> FALSE]]])

setEnabled(a, enabled) == updateMuteState([a EXCEPT !.enabled = enabled])

NoPlayback == [soundKey |-> "", enabled |-> "TRUE", started |-> FALSE]

\* (mutant of playSound: the enabled flag is not consulted)
playSoundAlways(a, soundKey) ==
    [soundKey |-> soundKey, enabled |-> a.enabled,
     started |-> soundKey \in DOMAIN a.sounds]

\* the play request as the AudioManager found it: started tells whether
\* sound.play() was called
playSound(a, soundKey) ==
    [soundKey |-> soundKey, enabled |-> a.enabled,
     started |-> Truthy(a.enabled) /\ soundKey \in DOMAIN a.sounds]

playClick(a) == playSound(a, IF a.isMobile THEN "CLICK_MOBILE" ELSE "CLICK")

playPaper(a) == playSound(a, IF a.isMobile THEN "PAPER_MOBILE" ELSE "PAPER")

-----------------------------------------------------------------------------
(* The page.  An element is a pair of its kind and its position among the   *)
(* elements of that kind, in document order; cls maps each element to its   *)
(* class list.  The children of .portfolio-items are the project articles   *)
(* and the .item elements of the grid are as many.                          *)

NoElement == <<"null", 0>>
Home == <<"home", 1>>
PortfolioGrid == <<"grid", 1>>
Layers == <<<<"layer", 1>>, <<"layer", 2>>>>
Article(i) == <<"article", i>>
Articles == {Article(i) : i \in 1..NumProjects}
Elements == {Home, PortfolioGrid, Layers[1], Layers[2]} \cup Articles

\* (mutant of Query: the element is returned whether it is in the document or not)
QueryAny(element) == element

\* safeQuerySelector(selector), element being what the selector denotes
Query(element) == IF element \in present THEN element ELSE NoElement

\* safeQuerySelector(`${PORTFOLIO_ITEMS} > article:nth-child(${index})`)
ArticleAt(index) == IF index \in 1..NumProjects THEN Query(Article(index)) ELSE NoElement

\* safeQuerySelector('.' + className) among the layers: the first in document order
LayerWith(cls, className) ==
    LET Matches(i) == Query(Layers[i]) # NoElement /\ className \in cls[Layers[i]]
    IN IF \E i \in 1..Len(Layers) : Matches(i)
       THEN Layers[CHOOSE i \in 1..Len(Layers) :
                      Matches(i) /\ \A j \in 1..(i - 1) : ~Matches(j)]
       ELSE NoElement

\* safeQuerySelector(`${PORTFOLIO_ITEMS} > article.${className}`)
ArticleWith(cls, className) ==
    LET Matches(i) == ArticleAt(i) # NoElement /\ className \in cls[Article(i)]
    IN IF \E i \in 1..NumProjects : Matches(i)
       THEN Article(CHOOSE i \in 1..NumProjects :
                       Matches(i) /\ \A j \in 1..(i - 1) : ~Matches(j))
       ELSE NoElement

\* element.classList.toggle(className, force) on the class list of an element
toggleClass(list, className, force) ==
    IF force = "TRUE" THEN list \cup {className} ELSE list \ {className}

addClass(cls, element, className) ==
    IF element = NoElement THEN cls
    ELSE [cls EXCEPT ![element] = @ \cup {className}]

removeClass(cls, element, className) ==
    IF element = NoElement THEN cls
    ELSE [cls EXCEPT ![element] = @ \ {className}]

-----------------------------------------------------------------------------
(* NavigationManager.  The operators take and return the record n of the    *)
(* tracked index, the pending timers and the class lists, with the number   *)
(* of the request being made.  A callback is the record of the function     *)
(* (method and position of the delayExecution call in it) and of the        *)
(* variables it closes over.  A timer holds its callback, its delay, the    *)
(* time left until it is due and the number of the request that set it.     *)

Navigation ==
    [index |-> currentProjectIndex, timers |-> timers, classes |-> classes,
     request |-> calls + 1]

Callback(method, step) ==
    [method |-> method, step |-> step,
     home |-> NoElement, portfolioGrid |-> NoElement,
     notActiveLayer |-> NoElement, activeLayer |-> NoElement,
     currentProject |-> NoElement, targetProject |-> NoElement,
     index |-> 0, direction |-> ""]

\* (mutant of switchLayers: the layer that was active keeps the class)
switchLayersKeepActive(cls, notActiveLayer, activeLayer, reverse) ==
    IF notActiveLayer = NoElement \/ activeLayer = NoElement THEN cls
    ELSE LET c1 == removeClass(cls, notActiveLayer, NOT_ACTIVE_LAYER)
             c2 == addClass(c1, notActiveLayer, ACTIVE_LAYER)
             c3 == IF reverse THEN addClass(c2, notActiveLayer, OPACITY_0)
                   ELSE removeClass(c2, notActiveLayer, OPACITY_0)
         IN addClass(c3, activeLayer, NOT_ACTIVE_LAYER)

\* (mutant of delayExecution: a new transition cancels the pending timers
\*  of the earlier ones)
delayExecutionSuperseding(n, delay, callback) ==
    [n EXCEPT !.timers =
        Append(SelectSeq(@, LAMBDA t : t.request = n.request),
               [left |-> delay, delay |-> delay,
                request |-> n.request, callback |-> callback])]

\* setTimeout(() => callback(), delay)
delayExecution(n, delay, callback) ==
    [n EXCEPT !.timers = Append(@, [left |-> delay, delay |-> delay,
                                    request |-> n.request, callback |-> callback])]

switchLayers(cls, notActiveLayer, activeLayer, reverse) ==
    IF notActiveLayer = NoElement \/ activeLayer = NoElement THEN cls
    ELSE IF reverse
    THEN LET c1 == removeClass(cls, notActiveLayer, NOT_ACTIVE_LAYER)
             c2 == addClass(c1, notActiveLayer, ACTIVE_LAYER)
             c3 == addClass(c2, notActiveLayer, OPACITY_0)
             c4 == addClass(c3, activeLayer, NOT_ACTIVE_LAYER)
             c5 == removeClass(c4, activeLayer, ACTIVE_LAYER)
         IN removeClass(c5, activeLayer, OPACITY_0)
    ELSE LET c1 == removeClass(cls, notActiveLayer, NOT_ACTIVE_LAYER)
             c2 == addClass(c1, notActiveLayer, ACTIVE_LAYER)
             c3 == removeClass(c2, notActiveLayer, OPACITY_0)
             c4 == addClass(c3, activeLayer, NOT_ACTIVE_LAYER)
         IN removeClass(c4, activeLayer, ACTIVE_LAYER)

activateProject(cls, index) ==
    LET c1 == addClass(cls, ArticleAt(index), ACTIVE)
        c2 == addClass(c1, ArticleAt(index - 1), TO_BOTTOM)
    IN addClass(c2, ArticleAt(index + 1), TO_TOP)

deactivateAllProjects(cls) ==
    LET activeProject == ArticleWith(cls, ACTIVE)
        c1 == removeClass(cls, activeProject, ACTIVE)
    IN [e \in DOMAIN c1 |->
          IF e \in Articles /\ Query(e) # NoElement
          THEN c1[e] \ {TO_TOP, TO_BOTTOM} ELSE c1[e]]

\* the body of a delayed callback, run on the class lists of the moment
Run(cls, cb) ==
    CASE cb.method = "openPortfolio" /\ cb.step = 1 ->
           removeClass(addClass(cls, cb.home, TO_TOP), cb.home, ACTIVE)
      [] cb.method = "openPortfolio" /\ cb.step = 2 ->
           removeClass(addClass(cls, cb.portfolioGrid, ACTIVE), cb.portfolioGrid, TO_BOTTOM)
      [] cb.method = "openPortfolio" /\ cb.step = 3 ->
           switchLayers(cls, cb.notActiveLayer, cb.activeLayer, FALSE)
      [] cb.method = "backToHome" /\ cb.step = 1 ->
           switchLayers(
               removeClass(addClass(cls, cb.portfolioGrid, TO_BOTTOM), cb.portfolioGrid, ACTIVE),
               cb.notActiveLayer, cb.activeLayer, TRUE)
      [] cb.method = "backToHome" /\ cb.step = 2 ->
           addClass(cls, cb.home, ACTIVE)
      [] cb.method = "openPortfolioItem" /\ cb.step = 1 ->
           removeClass(addClass(cls, cb.portfolioGrid, TO_TOP), cb.portfolioGrid, ACTIVE)
      [] cb.method = "openPortfolioItem" /\ cb.step = 2 ->
           activateProject(cls, cb.index)
      [] cb.method = "openPortfolioItem" /\ cb.step = 3 ->
           switchLayers(cls, cb.notActiveLayer, cb.activeLayer, FALSE)
      [] cb.method = "backToPortfolio" /\ cb.step = 1 ->
           switchLayers(cls, cb.notActiveLayer, cb.activeLayer, TRUE)
      [] cb.method = "backToPortfolio" /\ cb.step = 2 ->
           deactivateAllProjects(
               removeClass(addClass(cls, cb.portfolioGrid, ACTIVE), cb.portfolioGrid, TO_TOP))
      [] cb.method = "navigateToProject" /\ cb.step = 1 ->
           addClass(removeClass(cls, cb.currentProject, ACTIVE), cb.currentProject,
                    IF cb.direction = "bottom" THEN TO_BOTTOM ELSE TO_TOP)
      [] cb.method = "navigateToProject" /\ cb.step = 2 ->
           removeClass(removeClass(addClass(cls, cb.targetProject, ACTIVE),
                                   cb.targetProject, TO_TOP),
                       cb.targetProject, TO_BOTTOM)
      [] cb.method = "navigateToProject" /\ cb.step = 3 ->
           switchLayers(cls, cb.notActiveLayer, cb.activeLayer, FALSE)
      [] OTHER -> cls     \* the paper sound (and scrollTop = 0): no class changes

\* the callbacks that end a transition: this.audioManager.playPaper()
PlaysPaper(cb) ==
    \/ cb.method \in {"openPortfolio", "openPortfolioItem", "navigateToProject"} /\ cb.step = 4
    \/ cb.method \in {"backToHome", "backToPortfolio"} /\ cb.step = 3

\* element.scrollTop = 0 raises a TypeError where element is null
setScrollTop(element) == element = NoElement

\* (mutant of Raises: scrollTop is assigned without looking at the element)
RaisesUnguarded(cb) ==
    IF \/ cb.method = "backToHome" /\ cb.step = 3
       \/ cb.method = "openPortfolioItem" /\ cb.step = 4
    THEN setScrollTop(cb.portfolioGrid)
    ELSE FALSE

\* whether the body of a delayed callback raises:
\* if (portfolioGrid) { portfolioGrid.scrollTop = 0 } is its one property
\* access on a looked-up element outside addClass / removeClass / switchLayers
Raises(cb) ==
    IF \/ cb.method = "backToHome" /\ cb.step = 3
       \/ cb.method = "openPortfolioItem" /\ cb.step = 4
    THEN cb.portfolioGrid # NoElement /\ setScrollTop(cb.portfolioGrid)
    ELSE FALSE

\* the elements a method looks up when it is called
Lookup(n, method, step) ==
    [Callback(method, step) EXCEPT
        !.home = Query(Home),
        !.portfolioGrid = Query(PortfolioGrid),
        !.notActiveLayer = LayerWith(n.classes, NOT_ACTIVE_LAYER),
        !.activeLayer = LayerWith(n.classes, ACTIVE_LAYER)]

\* (mutant of openPortfolio: the grid is not activated)
openPortfolioNoGrid(n) ==
    LET n1 == delayExecution(n, TRANSITION_DELAY, Lookup(n, "openPortfolio", 1))
        n3 == delayExecution(n1, LAYER_OPACITY_DELAY, Lookup(n, "openPortfolio", 3))
    IN delayExecution(n3, PAPER_SOUND_DELAY, Lookup(n, "openPortfolio", 4))

openPortfolio(n) ==
    LET n1 == delayExecution(n, TRANSITION_DELAY, Lookup(n, "openPortfolio", 1))
        n2 == delayExecution(n1, LAYER_SWITCH_DELAY, Lookup(n, "openPortfolio", 2))
        n3 == delayExecution(n2, LAYER_OPACITY_DELAY, Lookup(n, "openPortfolio", 3))
    IN delayExecution(n3, PAPER_SOUND_DELAY, Lookup(n, "openPortfolio", 4))

backToHome(n) ==
    LET n1 == delayExecution(n, LAYER_OPACITY_DELAY, Lookup(n, "backToHome", 1))
        n2 == delayExecution(n1, HOME_ACTIVATION_DELAY, Lookup(n, "backToHome", 2))
    IN delayExecution(n2, PAPER_SOUND_DELAY, Lookup(n, "backToHome", 3))

\* (mutant of openPortfolioItem: the position of the item counted from 0)
openPortfolioItemFromZero(n, item) ==
    LET index == item - 1
        m == [n EXCEPT !.index = index]
        n1 == delayExecution(m, TRANSITION_DELAY, Lookup(n, "openPortfolioItem", 1))
        n2 == delayExecution(n1, LAYER_SWITCH_DELAY,
                             [Lookup(n, "openPortfolioItem", 2) EXCEPT !.index = index])
        n3 == delayExecution(n2, LAYER_OPACITY_DELAY, Lookup(n, "openPortfolioItem", 3))
    IN delayExecution(n3, PAPER_SOUND_DELAY, Lookup(n, "openPortfolioItem", 4))

\* item: the position of the clicked element among the .item elements, from 1
\* (Array.from(items).indexOf(element) is item - 1)
openPortfolioItem(n, item) ==
    LET index == (item - 1) + 1
        m == [n EXCEPT !.index = index]
        n1 == delayExecution(m, TRANSITION_DELAY, Lookup(n, "openPortfolioItem", 1))
        n2 == delayExecution(n1, LAYER_SWITCH_DELAY,
                             [Lookup(n, "openPortfolioItem", 2) EXCEPT !.index = index])
        n3 == delayExecution(n2, LAYER_OPACITY_DELAY, Lookup(n, "openPortfolioItem", 3))
    IN delayExecution(n3, PAPER_SOUND_DELAY, Lookup(n, "openPortfolioItem", 4))

\* (mutant of backToPortfolio: the grid and the projects are left as they are)
backToPortfolioNoGrid(n) ==
    LET n1 == delayExecution(n, LAYER_OPACITY_DELAY, Lookup(n, "backToPortfolio", 1))
    IN delayExecution(n1, PAPER_SOUND_DELAY, Lookup(n, "backToPortfolio", 3))

backToPortfolio(n) ==
    LET n1 == delayExecution(n, LAYER_OPACITY_DELAY, Lookup(n, "backToPortfolio", 1))
        n2 == delayExecution(n1, LAYER_SWITCH_DELAY, Lookup(n, "backToPortfolio", 2))
    IN delayExecution(n2, PAPER_SOUND_DELAY, Lookup(n, "backToPortfolio", 3))

\* (mutants of navigateToProject: the target is not looked up; the tracked
\*  index is left as it is)
navigateToProjectUnchecked(n, targetIndex) ==
    LET currentProject == ArticleAt(n.index)
        targetProject == ArticleAt(targetIndex)
        direction == IF targetIndex > n.index THEN "bottom" ELSE "top"
        n1 == delayExecution(n, TRANSITION_DELAY,
                  [Lookup(n, "navigateToProject", 1) EXCEPT
                      !.currentProject = currentProject, !.direction = direction])
        n2 == delayExecution(n1, LAYER_SWITCH_DELAY,
                  [Lookup(n, "navigateToProject", 2) EXCEPT !.targetProject = targetProject])
        n3 == delayExecution(n2, LAYER_OPACITY_DELAY, Lookup(n, "navigateToProject", 3))
        n4 == delayExecution(n3, PAPER_SOUND_DELAY, Lookup(n, "navigateToProject", 4))
    IN [n4 EXCEPT !.index = targetIndex]
navigateToProjectKeepIndex(n, targetIndex) ==
    LET currentProject == ArticleAt(n.index)
        targetProject == ArticleAt(targetIndex)
        direction == IF targetIndex > n.index THEN "bottom" ELSE "top"
        n1 == delayExecution(n, TRANSITION_DELAY,
                  [Lookup(n, "navigateToProject", 1) EXCEPT
                      !.currentProject = currentProject, !.direction = direction])
        n2 == delayExecution(n1, LAYER_SWITCH_DELAY,
                  [Lookup(n, "navigateToProject", 2) EXCEPT !.targetProject = targetProject])
        n3 == delayExecution(n2, LAYER_OPACITY_DELAY, Lookup(n, "navigateToProject", 3))
    IN IF targetProject = NoElement THEN n
       ELSE delayExecution(n3, PAPER_SOUND_DELAY, Lookup(n, "navigateToProject", 4))

\* (mutant of navigateToProject: the current project is the article that
\*  bears the active class)
navigateToProjectFromActive(n, targetIndex) ==
    LET currentProject == ArticleWith(n.classes, ACTIVE)
        targetProject == ArticleAt(targetIndex)
        direction == IF targetIndex > n.index THEN "bottom" ELSE "top"
        n1 == delayExecution(n, TRANSITION_DELAY,
                  [Lookup(n, "navigateToProject", 1) EXCEPT
                      !.currentProject = currentProject, !.direction = direction])
        n2 == delayExecution(n1, LAYER_SWITCH_DELAY,
                  [Lookup(n, "navigateToProject", 2) EXCEPT !.targetProject = targetProject])
        n3 == delayExecution(n2, LAYER_OPACITY_DELAY, Lookup(n, "navigateToProject", 3))
        n4 == delayExecution(n3, PAPER_SOUND_DELAY, Lookup(n, "navigateToProject", 4))
    IN IF targetProject = NoElement THEN n
       ELSE [n4 EXCEPT !.index = targetIndex]

navigateToProject(n, targetIndex) ==
    LET currentProject == ArticleAt(n.index)
        targetProject == ArticleAt(targetIndex)
        direction == IF targetIndex > n.index THEN "bottom" ELSE "top"
        n1 == delayExecution(n, TRANSITION_DELAY,
                  [Lookup(n, "navigateToProject", 1) EXCEPT
                      !.currentProject = currentProject, !.direction = direction])
        n2 == delayExecution(n1, LAYER_SWITCH_DELAY,
                  [Lookup(n, "navigateToProject", 2) EXCEPT !.targetProject = targetProject])
        n3 == delayExecution(n2, LAYER_OPACITY_DELAY, Lookup(n, "navigateToProject", 3))
        n4 == delayExecution(n3, PAPER_SOUND_DELAY, Lookup(n, "navigateToProject", 4))
    IN IF targetProject = NoElement THEN n
       ELSE [n4 EXCEPT !.index = targetIndex]

navigateToPreviousProject(n) == navigateToProject(n, n.index - 1)

navigateToNextProject(n) == navigateToProject(n, n.index + 1)

\* (mutant of NextTimer: the timers fire in the order of their registration)
NextTimerInOrder(tm) == 1

\* the timer that fires next: the earliest due, the first registered among equals
NextTimer(tm) ==
    CHOOSE i \in 1..Len(tm) :
        /\ \A j \in 1..Len(tm) : tm[i].left <= tm[j].left
        /\ \A j \in 1..(i - 1) : tm[j].left > tm[i].left

\* the pending timers once timer i has fired
AfterTimer(tm, i) ==
    [j \in 1..(Len(tm) - 1) |->
        LET k == IF j < i THEN j ELSE j + 1
        IN [tm[k] EXCEPT !.left = @ - tm[i].left]]

-----------------------------------------------------------------------------
(* Callbacks.  An observer is identified by its function object; what the   *)
(* function does when called is fixed per identity.                         *)

Callbacks == {"cbA", "cbT", "cbU"}

\* cbA: records its call (a spy).
\* cbT: records its call, then throws.
\* onView, onSound, onTheme: the observers that setupStateManagement
\*      registers; onSound hands the new value to AudioManager.setEnabled.
\* cbU: records its call, then calls the unsubscribe function that
\*      subscribe(UnsubKey, UnsubCb) returned; while no such function has
\*      been returned yet the variable holding it is undefined and the call
\*      throws a TypeError.
\* cbS: records its call, then calls stateManager.set(SetKey, SetValue).
Throws(cb) == cb = "cbT"
SetKey == <<"currentView">>
SetValue == "project"
UnsubKey == <<"currentView">>
UnsubCb == "cbA"
UnsubTarget == <<UnsubKey, UnsubCb>>

Event(kind, key, cb, newValue, oldValue, st) ==
    [kind |-> kind, key |-> key, cb |-> cb,
     newValue |-> newValue, oldValue |-> oldValue, snap |-> st]

-----------------------------------------------------------------------------
(* StateManager.  The operators take and return the record s of the parts   *)
(* of the program an operation can touch, and s.threw tells whether the     *)
(* operation ended by throwing.                                             *)

Store ==
    [state |-> state, observers |-> observers, logs |-> logs,
     handles |-> handles, trace |-> <<>>, threw |-> FALSE,
     audio |-> audioManager, copy |-> copy, body |-> body]

Has(lst, cb) == \E i \in 1..Len(lst) : lst[i] = cb

\* (mutants of SetAdd: an array push; an insertion at the front)
SetAddPush(lst, cb) == Append(lst, cb)
SetAddFront(lst, cb) == IF Has(lst, cb) THEN lst ELSE <<cb>> \o lst

\* Set.prototype.add: an entry already present keeps its place
SetAdd(lst, cb) == IF Has(lst, cb) THEN lst ELSE Append(lst, cb)

\* Set.prototype.delete
SetDelete(lst, cb) == SelectSeq(lst, LAMBDA x : x # cb)

subscribe(s, key, callback) ==
    LET obs0 == IF key \in DOMAIN s.observers
                THEN s.observers
                ELSE s.observers @@ (key :> <<>>)
    IN [s EXCEPT
          !.observers = [obs0 EXCEPT ![key] = SetAdd(obs0[key], callback)],
          !.logs = debug(s.logs, "Subscribed to state key: ", key),
          !.handles = s.handles \cup {<<key, callback>>},
          !.trace = Append(s.trace, Event("subscribe", key, callback, UNDEF, UNDEF, s.state))]

\* the function returned by subscribe(key, callback)
unsubscribe(s, key, callback) ==
    [s EXCEPT
       !.observers = IF key \in DOMAIN s.observers
                     THEN [s.observers EXCEPT ![key] = SetDelete(s.observers[key], callback)]
                     ELSE s.observers,
       !.logs = debug(s.logs, "Unsubscribed from state key: ", key),
       !.trace = Append(s.trace, Event("unsubscribe", key, callback, UNDEF, UNDEF, s.state))]

RECURSIVE set(_, _, _)

\* callback(newValue, oldValue): the call is recorded, then the body runs
Invoke(s, cb, key, newValue, oldValue) ==
    LET s1 == [s EXCEPT !.trace =
                  Append(s.trace, Event("call", key, cb, newValue, oldValue, s.state))]
    IN CASE Throws(cb) -> [s1 EXCEPT !.threw = TRUE]
         [] cb = "cbU" ->
              IF UnsubTarget \in s1.handles
              THEN unsubscribe(s1, UnsubKey, UnsubCb)
              ELSE [s1 EXCEPT !.threw = TRUE]
         [] cb = "cbS" -> set(s1, SetKey, SetValue)
         [] cb = "onView" ->
              [s1 EXCEPT !.logs = info(@, "View changed: ", key)]
         [] cb = "onSound" ->
              [s1 EXCEPT !.logs = info(@, "Sound enabled / disabled", key),
                         !.audio = setEnabled(@, newValue)]
         [] cb = "onTheme" ->
              [s1 EXCEPT !.logs = info(@, "Theme changed to: ", key),
                         !.body = {newValue}]
         [] OTHER -> s1

\* try { callback(newValue, oldValue) } catch (error) { logger.error(...) }
TryCall(s, cb, key, newValue, oldValue) ==
    LET r == Invoke(s, cb, key, newValue, oldValue)
    IN IF r.threw
       THEN [r EXCEPT !.threw = FALSE,
                      !.logs = error(r.logs, "Error in state observer for ", key)]
       ELSE r

\* how many of the first i entries of the list before a callback ran are
\* still in the list after it: the place the live iteration has reached
Visited(before, i, after) ==
    Cardinality({j \in 1..i : Has(after, before[j])})

\* observers.forEach(callback => ...): Set iteration is live, an entry
\* deleted before its turn is not visited
RECURSIVE ForEachObserver(_, _, _, _, _)
ForEachObserver(s, key, i, newValue, oldValue) ==
    LET lst == s.observers[key]
    IN IF i > Len(lst) THEN s
       ELSE LET r == TryCall(s, lst[i], key, newValue, oldValue)
            IN ForEachObserver(r, key, Visited(lst, i, r.observers[key]) + 1,
                               newValue, oldValue)

\* (mutants of notify: iteration over a copy of the Set; no try/catch)
RECURSIVE ForEachCopied(_, _, _, _, _, _)
ForEachCopied(s, key, lst, i, newValue, oldValue) ==
    IF i > Len(lst) THEN s
    ELSE ForEachCopied(TryCall(s, lst[i], key, newValue, oldValue),
                       key, lst, i + 1, newValue, oldValue)

notifyCopy(s, key, newValue, oldValue) ==
    IF key \in DOMAIN s.observers
    THEN ForEachCopied(s, key, s.observers[key], 1, newValue, oldValue)
    ELSE s

RECURSIVE ForEachUncaught(_, _, _, _, _)
ForEachUncaught(s, key, i, newValue, oldValue) ==
    LET lst == s.observers[key]
    IN IF i > Len(lst) \/ s.threw THEN s
       ELSE LET r == Invoke(s, lst[i], key, newValue, oldValue)
            IN ForEachUncaught(r, key, Visited(lst, i, r.observers[key]) + 1,
                               newValue, oldValue)

notifyNoCatch(s, key, newValue, oldValue) ==
    IF key \in DOMAIN s.observers
    THEN ForEachUncaught(s, key, 1, newValue, oldValue)
    ELSE s

\* (mutant of notify: the change is also told to the observers of the
\*  parent path)
notifyParent(s, key, newValue, oldValue) ==
    LET parent == SubSeq(key, 1, Len(key) - 1)
        told == IF key \in DOMAIN s.observers
                THEN ForEachObserver(s, key, 1, newValue, oldValue)
                ELSE s
    IN IF parent \in DOMAIN told.observers
       THEN ForEachObserver(told, parent, 1, newValue, oldValue)
       ELSE told

notify(s, key, newValue, oldValue) ==
    IF key \in DOMAIN s.observers
    THEN ForEachObserver(s, key, 1, newValue, oldValue)
    ELSE s

(* The object a caller got from getState().  object is the tree seen        *)
(* through it; shared are the properties of it whose value is the very     *)
(* object the store holds under the same key, so that what is written      *)
(* below them, by the store or by the caller, is written for both.         *)

\* whether path p lies at or below one of the paths of keep
Below(keep, p) == \E k \in keep : IsPrefix(k, p)

\* getState: return { ...this.state }, a new object with the own properties of
\* this.state, each holding the value (for an object: the reference) the
\* state holds
getState(st) ==
    [taken |-> TRUE, object |-> st,
     shared |-> {p \in DOMAIN st : Len(p) = 1 /\ st[p] = OBJ},
     change |-> "none", pre |-> <<>>]

\* the caller's object once the store has gone to st, having assigned new
\* values to its properties replaced: those are shared no longer
Sync(c, st, replaced) ==
    LET keep == c.shared \ replaced
        dom == {p \in DOMAIN c.object : ~Below(keep, p)}
                  \cup {p \in DOMAIN st : Below(keep, p)}
    IN [c EXCEPT !.shared = keep,
                 !.object = [p \in dom |-> IF Below(keep, p) THEN st[p] ELSE c.object[p]]]

\* get: for (const k of keys) { value = value?.[k]; if (value === undefined) break }
RECURSIVE GetWalk(_, _, _, _)
GetWalk(st, keys, i, cur) ==
    IF i > Len(keys) THEN ValAt(st, cur)
    ELSE IF OptChain(st, cur, keys[i]) = UNDEF THEN UNDEF
    ELSE GetWalk(st, keys, i + 1, Append(cur, keys[i]))

get(st, key) == GetWalk(st, key, 1, ROOT)

\* set: for (const k of keys) { if (!(k in target)) target[k] = {}; target = target[k] }
\* `k in target` throws a TypeError when target is not an object
RECURSIVE SetWalk(_, _, _, _)

\* (mutant of SetWalk: a missing container is not created, the walk goes on from undefined)
SetWalkNoCreate(st, keys, i, cur) ==
    IF i > Len(keys) THEN [threw |-> FALSE, state |-> st, target |-> cur]
    ELSE IF ValAt(st, cur) # OBJ THEN [threw |-> TRUE, state |-> st, target |-> cur]
    ELSE SetWalk(st, keys, i + 1, Append(cur, keys[i]))

SetWalk(st, keys, i, cur) ==
    IF i > Len(keys) THEN [threw |-> FALSE, state |-> st, target |-> cur]
    ELSE IF ValAt(st, cur) # OBJ THEN [threw |-> TRUE, state |-> st, target |-> cur]
    ELSE LET nxt == Append(cur, keys[i])
         IN SetWalk(IF nxt \in DOMAIN st THEN st ELSE st @@ (nxt :> OBJ),
                    keys, i + 1, nxt)

\* (mutant of set: the value is written and notified without comparing it with the old one)
setNoCompare(s, key, value) ==
    LET n == Len(key)
        lastKey == key[n]
        w == SetWalk(s.state, SubSeq(key, 1, n - 1), 1, ROOT)
        target == ValAt(w.state, w.target)
        leaf == Append(w.target, lastKey)
        oldValue == PropRead(w.state, w.target, lastKey)
        walked == [s EXCEPT !.state = w.state]
    IN IF w.threw \/ target # OBJ
       THEN [walked EXCEPT !.threw = TRUE]
       ELSE notify([walked EXCEPT
                       !.state = WriteLeaf(w.state, leaf, value),
                       !.logs = debug(s.logs, "State updated: ", key)],
                   key, value, oldValue)

set(s, key, value) ==
    LET n == Len(key)
        lastKey == key[n]
        w == SetWalk(s.state, SubSeq(key, 1, n - 1), 1, ROOT)
        target == ValAt(w.state, w.target)
        leaf == Append(w.target, lastKey)
        oldValue == PropRead(w.state, w.target, lastKey)
        walked == [s EXCEPT !.state = w.state, !.copy = Sync(@, w.state, {})]
        written == WriteLeaf(w.state, leaf, value)
    IN IF w.threw \/ target \in {NULL, UNDEF}
       THEN [walked EXCEPT !.threw = TRUE]           \* `in` / property read of null
       ELSE IF StrictEq(oldValue, value) THEN walked
       ELSE IF target # OBJ
       THEN [walked EXCEPT !.threw = TRUE]           \* strict mode: property of a primitive
       ELSE notify([walked EXCEPT
                       !.state = written,
                       !.copy = Sync(s.copy, written, IF n = 1 THEN {key} ELSE {}),
                       !.logs = debug(s.logs, "State updated: ", key)],
                   key, value, oldValue)

\* Object.entries(updates).forEach(([key, value]) => this.set(key, value)),
\* from the i-th entry on; a set that throws ends the loop
RECURSIVE ForEachEntry(_, _, _)
ForEachEntry(s, entries, i) ==
    IF i > Len(entries) \/ s.threw THEN s
    ELSE ForEachEntry(set(s, entries[i][1], entries[i][2]), entries, i + 1)

\* (mutant of update: every value is written first, the observers are told afterwards)
RECURSIVE NotifyEntries(_, _, _, _)
NotifyEntries(s, before, entries, i) ==
    IF i > Len(entries) THEN s
    ELSE LET key == entries[i][1]
             old == get(before, key)
             told == IF StrictEq(old, entries[i][2]) THEN s
                     ELSE notify(s, key, entries[i][2], old)
         IN NotifyEntries(told, before, entries, i + 1)

updateAtomic(s, entries) ==
    LET written == ForEachEntry([s EXCEPT !.observers = <<>>], entries, 1)
    IN NotifyEntries([written EXCEPT !.observers = s.observers], s.state, entries, 1)

update(s, entries) == ForEachEntry(s, entries, 1)

\* (mutant of reset: the defaults are written one by one through set)
ResetEntries ==
    << <<<<"currentView">>, "home">>, <<<<"currentProjectIndex">>, "0">>,
       <<<<"soundEnabled">>, "TRUE">>, <<<<"theme">>, "dark">>,
       <<<<"isLoading">>, "FALSE">> >>

resetBySet(s) ==
    LET r == ForEachEntry(s, ResetEntries, 1)
    IN [r EXCEPT !.logs = info(r.logs, "State reset", ROOT)]

\* (mutant of reset: the registrations are dropped with the state)
resetForgetsObservers(s) ==
    [s EXCEPT !.state = ResetState,
              !.observers = <<>>,
              !.copy = Sync(@, ResetState, @.shared),
              !.logs = info(s.logs, "State reset", ROOT)]

reset(s) ==
    [s EXCEPT !.state = ResetState,
              !.copy = Sync(@, ResetState, @.shared),
              !.logs = info(s.logs, "State reset", ROOT)]

-----------------------------------------------------------------------------
(* Registration history, kept beside the program: per <<key, callback>> how *)
(* often subscribe was called since the pair was last unsubscribed (2      *)
(* stands for "twice or more"), which pairs had their unsubscribe function *)
(* called since, and per key the callbacks in the order of their first     *)
(* subscribe call of the current registration (order) and ever (ever).     *)

\* the dot-paths the operations are called with
Keys ==
    {<<"currentView">>, <<"isLoading">>, <<"newObject">>,
     <<"soundEnabled">>, <<"theme">>, <<"animations">>,
     <<"animations", "starsActive">>, <<"newObject", "newKey">>,
     <<"currentView", "newKey">>, <<"newObject", "newKey", "deep">>}

Pairs == Keys \X Callbacks

RegInit ==
    [count |-> [p \in Pairs |-> 0],
     gone |-> {},
     order |-> [k \in Keys |-> <<>>],
     ever |-> [k \in Keys |-> <<>>]]

RegStep(r, ev) ==
    LET p == <<ev.key, ev.cb>>
    IN CASE p \notin Pairs -> r
         [] ev.kind = "subscribe" ->
              [count |-> [r.count EXCEPT ![p] = IF @ = 0 THEN 1 ELSE 2],
               gone |-> r.gone \ {p},
               order |-> [r.order EXCEPT ![ev.key] = IF r.count[p] = 0 THEN Append(@, ev.cb) ELSE @],
               ever |-> [r.ever EXCEPT ![ev.key] = IF Has(@, ev.cb) THEN @ ELSE Append(@, ev.cb)]]
         [] ev.kind = "unsubscribe" ->
              [r EXCEPT !.count[p] = 0,
                        !.gone = @ \cup {p},
                        !.order[ev.key] = SelectSeq(@, LAMBDA x : x # ev.cb)]
         [] OTHER -> r

\* the history after the first n events of a trace
RECURSIVE RegAfter(_, _, _)
RegAfter(r, tr, n) ==
    IF n = 0 THEN r ELSE RegStep(RegAfter(r, tr, n - 1), tr[n])

-----------------------------------------------------------------------------
(* PortfolioApp.  initialize() runs the steps below inside try / catch; the *)
(* animation managers and what the setup steps do to the page are not       *)
(* modelled beyond their place in the sequence.                             *)

Steps ==
    <<"AudioManager", "NavigationManager", "UIManager", "EventHandlerManager",
      "StarAnimationManager", "Portfolio3DAnimationManager",
      "setupUI", "setupEventHandlers", "setupStateManagement", "setupAnimations">>

\* failing: the position in Steps of the step that throws, 0 if none does.
\* A constructor throws before the object exists; a setup step throws right
\* after its logger.debug line.
Reached(k, failing) == failing = 0 \/ k <= failing
Passed(k, failing) == failing = 0 \/ k < failing

\* the timer that removes the banner: setTimeout(() => errorMessage.remove(), 5000)
BannerTimer ==
    [left |-> BANNER_DELAY, delay |-> BANNER_DELAY, request |-> 0,
     callback |-> Callback("handleInitializationError", 1)]

\* the timer of the DOMContentLoaded listener:
\* setTimeout(() => app.starAnimationManager.initialize(), 500)
\* (the stars it creates are not elements of the page modelled here)
StarTimer ==
    [left |-> STAR_DELAY, delay |-> STAR_DELAY, request |-> 0,
     callback |-> Callback("DOMContentLoaded", 0)]

\* app.starAnimationManager.initialize() raises a TypeError where the
\* constructor's null is still in the field
StarRaises(cb, a) ==
    cb.method = "DOMContentLoaded" /\ a.starAnimationManager = NULL

\* logger.debug(message) of a step, where the run gets as far as the step
Step(reached, lg, message) == IF reached THEN debug(lg, message, ROOT) ELSE lg

\* the monitor after the managers: startMeasure('app-initialization'),
\* logger.info, startMeasure('managers-init'), the six constructors and
\* endMeasure('managers-init')
InitializeManagers(p, failing) ==
    LET p1 == startMeasure(p, "app-initialization")
        p2 == startMeasure([p1 EXCEPT !.logs =
                               info(@, "Portfolio application initializing...", ROOT)],
                           "managers-init")
    IN IF Passed(6, failing) THEN endMeasure(p2, "managers-init", 1) ELSE p2

\* this.setupStateManagement(): the three observers of the application
setupStateManagement(s) ==
    subscribe(subscribe(subscribe(s, <<"currentView">>, "onView"),
                        <<"soundEnabled">>, "onSound"),
              <<"theme">>, "onTheme")

\* the setup steps on the store s, the monitor p3 having passed the managers
InitializeSetup(s, p3, failing) ==
    LET lg9 == Step(Reached(9, failing),
                    Step(Reached(8, failing),
                         Step(Reached(7, failing), p3.logs, "Setting up UI components"),
                         "Setting up event handlers"),
                    "Setting up state management")
        s0 == [s EXCEPT !.logs = lg9,
                        !.audio = IF Passed(1, failing)
                                  THEN NewAudioManager(FALSE) ELSE @,
                        !.body = IF Passed(7, failing)
                                 THEN toggleClass(@, SOUND, "TRUE") ELSE @]
    IN IF Passed(9, failing) THEN setupStateManagement(s0) ELSE s0

\* the store s3 and the monitor p3 with the log history the steps have left
InitializeLogged(s3, p3, failing) ==
    LET lg10 == Step(Reached(10, failing), s3.logs, "Setting up animations")
    IN [store |-> [s3 EXCEPT !.logs = lg10], monitor |-> [p3 EXCEPT !.logs = lg10]]

\* the monitor p3 having passed the managers, the rest of the try block
InitializeAfterManagers(s, p3, failing) ==
    InitializeLogged(InitializeSetup(s, p3, failing), p3, failing)

\* what the try block of initialize() makes of the store s and the monitor
\* p, up to the step that throws or to setupAnimations
InitializeSteps(s, p, failing) ==
    InitializeAfterManagers(s, InitializeManagers(p, failing), failing)

\* (mutant of initializeEnd: no try / catch around the steps)
initializeEndUncaught(r, failing) ==
    LET p4 == endMeasure(r.monitor, "app-initialization", 2)
        s4 == set([r.store EXCEPT !.logs =
                      info(p4.logs, "Portfolio application initialized successfully", ROOT)],
                  <<"isLoading">>, "FALSE")
    IN IF failing = 0
       THEN [store |-> s4, monitor |-> p4, phase |-> "initialized",
             banner |-> "none", threw |-> FALSE, timers |-> <<>>]
       ELSE [store |-> r.store, monitor |-> r.monitor, phase |-> "failed",
             banner |-> "none", threw |-> TRUE, timers |-> <<>>]

\* the end of initialize(), the steps having left r: the end of the try block
\* where none has thrown, the catch block where one has
initializeEnd(r, failing) ==
    LET p4 == endMeasure(r.monitor, "app-initialization", 2)
        s4 == set([r.store EXCEPT !.logs =
                      info(p4.logs, "Portfolio application initialized successfully", ROOT)],
                  <<"isLoading">>, "FALSE")
        \* catch (error): logger.error(...); this.handleInitializationError(error)
        lgF == error(error(r.store.logs, "Failed to initialize portfolio application", ROOT),
                     "Critical initialization error", ROOT)
    IN IF failing = 0
       THEN [store |-> s4, monitor |-> p4, phase |-> "initialized",
             banner |-> "none", threw |-> FALSE, timers |-> <<>>]
       ELSE [store |-> [r.store EXCEPT !.logs = lgF],
             monitor |-> [r.monitor EXCEPT !.logs = lgF], phase |-> "failed",
             banner |-> "shown", threw |-> FALSE, timers |-> <<BannerTimer>>]

\* what initialize() makes of the store s and the monitor p: the record of
\* the store, the monitor, the outcome and the timers it has set
initialize(s, p, failing) == initializeEnd(InitializeSteps(s, p, failing), failing)

-----------------------------------------------------------------------------
(* Operations *)

NoEntries == <<>>

\* no array has been handed out
NoArray == [arr |-> <<>>, ref |-> <<>>, change |-> "none", pre |-> <<>>]

NoCycles == [open |-> {}, done |-> <<>>]

\* getState() has not been called
\* getState() has not been called
NoCopy == [taken |-> FALSE, object |-> <<>>, shared |-> {},
           change |-> "none", pre |-> <<>>]

InitStore ==
    /\ state = InitialState
    /\ observers = <<>>
    /\ handles = {}
    /\ trace = <<>>
    /\ reg = RegInit
    /\ copy = NoCopy
    /\ last = [op |-> "new", key |-> ROOT, value |-> UNDEF, entries |-> NoEntries,
               threw |-> FALSE, ret |-> UNDEF,
               pre |-> InitialState, preObservers |-> <<>>, preLogs |-> <<>>,
               preReg |-> RegInit]

InitMonitor ==
    /\ metrics = <<>>
    /\ marks = {}
    /\ cycles = NoCycles
    /\ perf = [op |-> "new", name |-> "", ret |-> NotFound,
               preMetrics |-> <<>>, preLogs |-> <<>>, preCycles |-> NoCycles]

\* the class lists of the page as loaded: the home view
InitialClasses ==
    [e \in Elements |->
        CASE e = Home -> {ACTIVE}
          [] e = PortfolioGrid -> {TO_BOTTOM}
          [] e = Layers[1] -> {ACTIVE_LAYER}
          [] e = Layers[2] -> {NOT_ACTIVE_LAYER, OPACITY_0}
          [] OTHER -> {}]

NoRequest == [op |-> "new", arg |-> 0, idle |-> TRUE,
              preClasses |-> InitialClasses, preIndex |-> 0, fired |-> 0]

\* no delayed action of the last request has fired
NoFires == <<>>

\* no delayed action has been registered
NoSchedule == [set |-> {}, ran |-> <<>>, raised |-> {}]

\* no application object
NoApp == [phase |-> "none", banner |-> "none", runs |-> 0,
          wired |-> FALSE, threw |-> FALSE, load |-> "none",
          starAnimationManager |-> NULL]

InitAudio ==
    /\ audioManager = NewAudioManager(FALSE)
    /\ playback = NoPlayback
    /\ body = {}

\* a new NavigationManager and the class lists of the page as loaded
InitPage ==
    /\ currentProjectIndex = 0
    /\ classes = InitialClasses
    /\ timers = <<>>
    /\ schedule = NoSchedule
    /\ nav = [op |-> "new", arg |-> 0, idle |-> TRUE, fired |-> 0,
              request |-> 0, elapsed |-> 0, fires |-> NoFires, sound |-> "TRUE",
              preIndex |-> 0, preClasses |-> InitialClasses, preTimers |-> <<>>,
              preView |-> "home", prev |-> NoRequest]

\* the page holds every element the navigation looks up
InitNavigation ==
    /\ InitPage
    /\ present = Elements

Init ==
    /\ InitStore
    /\ logs = debug(<<>>, "StateManager initialized", ROOT)
    /\ logged = logs
    /\ held = NoArray
    /\ calls = 0
    /\ isSupported = TRUE
    /\ InitMonitor
    /\ InitNavigation
    /\ InitAudio
    /\ app = NoApp

\* where the objects of a handed-out array are in the history after e evictions
Rebase(ref, e) == [j \in 1..Len(ref) |-> IF ref[j] > e THEN ref[j] - e ELSE 0]

\* log calls added the entries and turned the history into lg
Logged(lg, entries) ==
    /\ logs' = lg
    /\ logged' = logged \o entries
    /\ held' = [held EXCEPT !.ref = Rebase(@, Len(logs) + Len(entries) - Len(lg)),
                            !.change = "none", !.pre = <<>>]

\* the store as an operation finds it, and the same with an empty log history
Fresh == [Store EXCEPT !.logs = <<>>]

\* the operation op(key, value / entries) took the program from Store to s,
\* and from Fresh to f: f.logs are the entries it logged
Stored(s, f, op, key, value, entries, ret) ==
    /\ state' = s.state
    /\ observers' = s.observers
    /\ Logged(s.logs, f.logs)
    /\ handles' = s.handles
    /\ trace' = s.trace
    /\ reg' = RegAfter(reg, s.trace, Len(s.trace))
    /\ last' = [op |-> op, key |-> key, value |-> value, entries |-> entries,
                threw |-> s.threw, ret |-> ret,
                pre |-> state, preObservers |-> observers, preLogs |-> logs,
                preReg |-> reg]
    /\ audioManager' = s.audio
    /\ body' = s.body
    /\ copy' = [s.copy EXCEPT !.change = "none", !.pre = <<>>]

Commit(s, f, op, key, value, entries, ret) ==
    /\ Stored(s, f, op, key, value, entries, ret)
    /\ UNCHANGED <<perfVars, navVars, playback, app>>

Subscribe(key, cb) ==
    Commit(subscribe(Store, key, cb), subscribe(Fresh, key, cb),
           "subscribe", key, cb, NoEntries, UNDEF)

\* the caller calls an unsubscribe function it holds
Unsubscribe(key, cb) ==
    /\ <<key, cb>> \in handles
    /\ Commit(unsubscribe(Store, key, cb), unsubscribe(Fresh, key, cb),
              "unsubscribe", key, cb, NoEntries, UNDEF)

Set(key, value) ==
    Commit(set(Store, key, value), set(Fresh, key, value),
           "set", key, value, NoEntries, UNDEF)

Get(key) ==
    Commit(Store, Fresh, "get", key, UNDEF, NoEntries, get(state, key))

Update(entries) ==
    Commit(update(Store, entries), update(Fresh, entries),
           "update", ROOT, UNDEF, entries, UNDEF)

Reset ==
    Commit(reset(Store), reset(Fresh), "reset", ROOT, UNDEF, NoEntries, UNDEF)

\* const copy = stateManager.getState()
GetState ==
    /\ copy' = getState(state)
    /\ UNCHANGED <<state, observers, handles, trace, last, reg,
                   logVars, perfVars, navVars, audioVars, app>>

\* copy.a = value or copy.a.b = value, path being <<a>> or <<a, b>>: the
\* second writes the object copy.a, which is the store's own while shared
CallerAssign(path, value) ==
    LET container == SubSeq(path, 1, Len(path) - 1)
        mine == ~Below(copy.shared, container) \/ container = ROOT
    IN /\ copy.taken
       /\ Len(path) \in 1..2
       /\ ValAt(copy.object, container) = OBJ
       /\ state' = IF mine THEN state ELSE WriteLeaf(state, path, value)
       /\ copy' = [Sync([copy EXCEPT !.object = WriteLeaf(@, path, value)],
                        state', IF Len(path) = 1 THEN {path} ELSE {})
                      EXCEPT !.change = "assign", !.pre = state]
       /\ UNCHANGED <<observers, handles, trace, last, reg,
                      logVars, perfVars, navVars, audioVars, app>>

(* Logger operations, called directly *)

Messages == {"message"}

Debug(message) ==
    /\ Logged(debug(logs, message, ROOT), <<LogEntry("DEBUG", message, ROOT)>>)
    /\ UNCHANGED <<storeVars, perfVars, navVars, audioVars, app>>

Info(message) ==
    /\ Logged(info(logs, message, ROOT), <<LogEntry("INFO", message, ROOT)>>)
    /\ UNCHANGED <<storeVars, perfVars, navVars, audioVars, app>>

Warn(message) ==
    /\ Logged(warn(logs, message, ROOT), <<LogEntry("WARN", message, ROOT)>>)
    /\ UNCHANGED <<storeVars, perfVars, navVars, audioVars, app>>

Error(message) ==
    /\ Logged(error(logs, message, ROOT), <<LogEntry("ERROR", message, ROOT)>>)
    /\ UNCHANGED <<storeVars, perfVars, navVars, audioVars, app>>

Clear ==
    /\ logs' = clear(logs)
    /\ logged' = <<>>
    /\ held' = [held EXCEPT !.ref = Rebase(@, Len(logs)), !.change = "none", !.pre = <<>>]
    /\ UNCHANGED <<storeVars, perfVars, navVars, audioVars, app>>

\* const copy = logger.getLogs()
GetLogs ==
    /\ held' = [arr |-> getLogs(logs), ref |-> [j \in 1..Len(logs) |-> j],
                change |-> "none", pre |-> <<>>]
    /\ UNCHANGED <<logs, logged, storeVars, perfVars, navVars, audioVars, app>>

(* What a caller can do to the array it holds.  An element of the array is  *)
(* the entry object the history holds, as long as the history holds it.     *)

Changed(arr, ref, change) ==
    held' = [arr |-> arr, ref |-> ref, change |-> change, pre |-> logs]

\* copy.push(entry)
CallerPush ==
    /\ Changed(Append(held.arr, LogEntry("INFO", "pushed", ROOT)), Append(held.ref, 0), "push")
    /\ UNCHANGED <<logs, logged, storeVars, perfVars, navVars, audioVars, app>>

\* copy.pop()
CallerPop ==
    /\ held.arr # <<>>
    /\ Changed(SubSeq(held.arr, 1, Len(held.arr) - 1),
               SubSeq(held.ref, 1, Len(held.ref) - 1), "pop")
    /\ UNCHANGED <<logs, logged, storeVars, perfVars, navVars, audioVars, app>>

Reverse(seq) == [j \in 1..Len(seq) |-> seq[Len(seq) + 1 - j]]

\* copy.reverse()
CallerReverse ==
    /\ Len(held.arr) > 1
    /\ Changed(Reverse(held.arr), Reverse(held.ref), "reverse")
    /\ UNCHANGED <<logs, logged, storeVars, perfVars, navVars, audioVars, app>>

\* copy[j - 1].message = 'changed'
CallerModify(j) ==
    /\ j \in 1..Len(held.arr)
    /\ Changed([held.arr EXCEPT ![j].message = "changed"], held.ref, "modify")
    /\ logs' = IF held.ref[j] > 0
               THEN [logs EXCEPT ![held.ref[j]].message = "changed"]
               ELSE logs
    /\ logged' = logged
    /\ UNCHANGED <<storeVars, perfVars, navVars, audioVars, app>>

(* PerformanceMonitor operations *)

Names == {"init", "load"}
Durations == {1, 2}

\* The cycles as the callers made them.  A startMeasure(name) is pending
\* until the next endMeasure(name) or clear(); an endMeasure(name) that finds
\* it pending completes a cycle, whose duration is the one the browser
\* measured (without the Performance API there is nothing to measure and no
\* cycle completes).
CycleStart(name) == [cycles EXCEPT !.open = @ \cup {name}]

CycleEnd(name, duration) ==
    IF name \in cycles.open
    THEN [open |-> cycles.open \ {name},
          done |-> IF ~isSupported THEN cycles.done
                   ELSE IF name \in DOMAIN cycles.done
                   THEN [cycles.done EXCEPT ![name] = Append(@, duration)]
                   ELSE cycles.done @@ (name :> <<duration>>)]
    ELSE cycles

\* the operation op(name) took the monitor from Monitor to p
Measured(p, f, op, name, after) ==
    /\ metrics' = p.metrics
    /\ marks' = p.marks
    /\ Logged(p.logs, f.logs)
    /\ cycles' = after
    /\ perf' = [op |-> op, name |-> name, ret |-> p.ret,
                preMetrics |-> metrics, preLogs |-> logs, preCycles |-> cycles]
    /\ UNCHANGED <<storeVars, isSupported, navVars, audioVars, app>>

FreshMonitor == [Monitor EXCEPT !.logs = <<>>]

StartMeasure(name) ==
    Measured(startMeasure(Monitor, name), startMeasure(FreshMonitor, name),
             "startMeasure", name, CycleStart(name))

EndMeasure(name, duration) ==
    Measured(endMeasure(Monitor, name, duration), endMeasure(FreshMonitor, name, duration),
             "endMeasure", name, CycleEnd(name, duration))

GetMetrics(name) ==
    Measured([Monitor EXCEPT !.ret = getMetrics(metrics, name)], FreshMonitor,
             "getMetrics", name, cycles)

MonitorClear ==
    Measured(monitorClear(Monitor), monitorClear(FreshMonitor), "clear", "", NoCycles)

(* NavigationManager operations and the timers *)

\* the request op(arg) took the navigation from Navigation to n
Requested(n, op, arg) ==
    /\ currentProjectIndex' = n.index
    /\ timers' = n.timers
    /\ classes' = n.classes
    /\ nav' = [op |-> op, arg |-> arg, idle |-> timers = <<>>, fired |-> 0,
               request |-> n.request, elapsed |-> 0, fires |-> NoFires,
               sound |-> audioManager.enabled,
               preIndex |-> currentProjectIndex, preClasses |-> classes,
               preTimers |-> timers,
               preView |-> ValAt(state, <<"currentView">>),
               prev |-> [op |-> nav.op, arg |-> nav.arg, idle |-> nav.idle,
                         preClasses |-> nav.preClasses,
                         preIndex |-> nav.preIndex, fired |-> nav.fired]]
    /\ playback' = playClick(audioManager)
    /\ schedule' = [schedule EXCEPT !.set = @ \cup
                       {<<n.timers[i].request, n.timers[i].callback.step>> :
                           i \in {j \in 1..Len(n.timers) :
                                     n.timers[j].request = n.request}}]
    /\ UNCHANGED <<storeVars, logVars, perfVars, present, audioManager, body, app>>

OpenPortfolio == Requested(openPortfolio(Navigation), "openPortfolio", 0)

BackToHome == Requested(backToHome(Navigation), "backToHome", 0)

OpenPortfolioItem(item) ==
    Requested(openPortfolioItem(Navigation, item), "openPortfolioItem", item)

BackToPortfolio == Requested(backToPortfolio(Navigation), "backToPortfolio", 0)

\* arg is the target index handed to navigateToProject
NavigateToPreviousProject ==
    Requested(navigateToPreviousProject(Navigation), "previous", currentProjectIndex - 1)

NavigateToNextProject ==
    Requested(navigateToNextProject(Navigation), "next", currentProjectIndex + 1)

\* the timer due next fires: delayExecution runs the callback inside
\* try / catch.  fault: the callback raises before it has changed anything,
\* for a reason outside the page modelled here (once in a run)
Fire(fault) ==
    /\ timers # <<>>
    /\ LET i == NextTimer(timers)
           t == timers[i]
           cb == t.callback
           id == <<t.request, cb.step>>
           raised == fault \/ Raises(cb) \/ StarRaises(cb, app)
       IN /\ fault => /\ schedule.raised = {}
                      /\ cb.method \notin {"handleInitializationError", "DOMContentLoaded"}
          /\ app' = IF cb.method = "handleInitializationError"
                     THEN [app EXCEPT !.banner = "removed"] ELSE app
          /\ classes' = IF raised THEN classes ELSE Run(classes, cb)
          /\ timers' = AfterTimer(timers, i)
          /\ playback' = IF ~raised /\ PlaysPaper(cb)
                          THEN playPaper(audioManager) ELSE playback
          /\ schedule' = [schedule EXCEPT
                             !.ran = Append(@, id),
                             !.raised = IF raised THEN @ \cup {id} ELSE @]
          /\ nav' = [nav EXCEPT
                        !.fired = @ + 1,
                        !.elapsed = @ + t.left,
                        !.fires = IF t.request = nav.request
                                  THEN Append(@, [step |-> cb.step,
                                                  delay |-> t.delay,
                                                  at |-> nav.elapsed + t.left])
                                  ELSE @]
    /\ UNCHANGED <<currentProjectIndex, present, audioManager, body,
                   storeVars, logVars, perfVars>>

\* the timer due next fires and its callback runs to its end
Timeout == Fire(FALSE)

\* the event loop runs the timer due next
RunTimer ==
    /\ \E fault \in BOOLEAN : Fire(fault)
    /\ UNCHANGED calls

(* UIManager *)

\* click on a .sound-toggle element: the handler of initializeSoundToggle
\* (the classes and labels of the toggle itself are not part of the page
\*  modelled here)
ToggleSound ==
    LET newState == Not(audioManager.enabled)
    IN /\ audioManager' = setEnabled(audioManager, newState)
       /\ body' = toggleClass(body, SOUND, newState)
       /\ UNCHANGED <<storeVars, logVars, perfVars, navVars, playback, app>>

\* the 'load' event of the window reaches the listener of initializeLoader
WindowLoad ==
    /\ app.load = "listening"
    /\ app' = [app EXCEPT !.load = "fired"]
    /\ body' = body \cup {LOADED, SOUND}
    /\ UNCHANGED <<storeVars, logVars, perfVars, navVars, audioManager, playback>>

(* PortfolioApp *)

\* initialize() has taken the program to r, and to f from an empty log history
Loaded(r, f, failing) ==
    /\ Stored([r.store EXCEPT !.handles = handles, !.trace = <<>>], f.store,
              "initialize", ROOT, UNDEF, NoEntries, UNDEF)
    /\ metrics' = r.monitor.metrics
    /\ marks' = r.monitor.marks
    /\ cycles' = [open |-> r.monitor.marks, done |-> r.monitor.metrics]
    /\ timers' = timers \o r.timers \o <<StarTimer>>
    /\ schedule' = [schedule EXCEPT !.set = @ \cup
                       {<<r.timers[i].request, r.timers[i].callback.step>> :
                           i \in 1..Len(r.timers)}
                       \cup {<<StarTimer.request, StarTimer.callback.step>>}]
    /\ app' = [phase |-> r.phase, banner |-> r.banner, runs |-> app.runs + 1,
               wired |-> Passed(8, failing), threw |-> r.threw,
               load |-> IF Passed(7, failing) THEN "listening" ELSE app.load,
               starAnimationManager |-> IF Passed(5, failing) THEN OBJ ELSE NULL]
    /\ UNCHANGED <<isSupported, perf, currentProjectIndex, classes, nav, present, playback>>

\* the DOMContentLoaded listener: new PortfolioApp().initialize()
\* (the unsubscribe functions are dropped, and the registration history
\*  follows the observers of the scenarios only)
DOMContentLoaded(failing) ==
    /\ app.phase = "loading"
    /\ Loaded(initialize(Store, Monitor, failing),
              initialize(Fresh, FreshMonitor, failing), failing)

-----------------------------------------------------------------------------
(* Observers of one key: subscribe, unsubscribe and set in every order *)

ObsKey == <<"currentView">>
ObsValues == {"home", "portfolio"}

NextObs ==
    /\ Len(logs) < MaxObsLogged
    /\ \/ \E cb \in Callbacks : Subscribe(ObsKey, cb)
       \/ \E cb \in Callbacks : Unsubscribe(ObsKey, cb)
       \/ \E v \in ObsValues : Set(ObsKey, v)
    /\ UNCHANGED calls

SpecObs == Init /\ [][NextObs]_vars

(* The store: single writes, batches and reset, with a spy on some keys *)

StoreKeys ==
    {<<"currentView">>, <<"isLoading">>,
     <<"animations", "starsActive">>, <<"newObject", "newKey">>}

ValuesFor(k) == IF k = <<"currentView">> THEN {"home", "portfolio"} ELSE {"TRUE", "FALSE"}

\* Object.entries of the objects passed to update, in iteration order
UpdateMaps ==
    {<< <<<<"currentView">>, "portfolio">>, <<<<"isLoading">>, "FALSE">> >>,
     << <<<<"isLoading">>, "FALSE">>, <<<<"currentView">>, "portfolio">> >>,
     << <<<<"newObject", "newKey">>, "TRUE">>, <<<<"soundEnabled">>, "FALSE">> >>,
     << <<<<"currentView">>, "portfolio">>, <<<<"newObject", "newKey">>, "TRUE">>,
        <<<<"theme">>, "light">> >>}

NextStore ==
    /\ Len(logs) < MaxStoreLogged
    /\ \/ \E k \in StoreKeys \ {<<"newObject", "newKey">>} : Subscribe(k, "cbA")
       \/ \E k \in StoreKeys : \E v \in ValuesFor(k) : Set(k, v)
       \/ \E m \in UpdateMaps : Update(m)
       \/ Reset
    /\ UNCHANGED calls

SpecStore == Init /\ [][NextStore]_vars

(* Paths of every shape: absent, nested, through a scalar, through null *)

PathWrites ==
    {<<<<"currentView">>, "portfolio">>,
     <<<<"newObject">>, NULL>>,
     <<<<"newObject">>, UNDEF>>,
     <<<<"newObject", "newKey">>, "home">>,
     <<<<"newObject", "newKey">>, UNDEF>>,
     <<<<"currentView", "newKey">>, "home">>,
     <<<<"newObject", "newKey", "deep">>, "home">>,
     <<<<"animations", "starsActive">>, "TRUE">>}

NextPaths ==
    /\ Len(logs) < MaxPathLogged
    /\ \/ \E w \in PathWrites : Set(w[1], w[2])
       \/ \E k \in Keys : Get(k)
    /\ UNCHANGED calls

SpecPaths == Init /\ [][NextPaths]_vars

(* An observer that writes the key it observes, beside one that does not   *)

NextNested ==
    /\ Len(logs) < MaxNestedLogged
    /\ \/ \E cb \in {"cbA", "cbS"} : Subscribe(SetKey, cb)
       \/ \E v \in ObsValues : Set(SetKey, v)
    /\ UNCHANGED calls

SpecNested == Init /\ [][NextNested]_vars

(* Observers on a path, on its parent and on its child, and writes to each *)

FrameKeys ==
    {<<"animations">>, <<"animations", "starsActive">>,
     <<"newObject">>, <<"newObject", "newKey">>}

FrameWrites ==
    {<<<<"animations", "starsActive">>, "TRUE">>,
     <<<<"animations">>, "none">>,
     <<<<"newObject", "newKey">>, "home">>,
     <<<<"newObject">>, NULL>>,
     <<<<"theme">>, "light">>}

NextFrame ==
    /\ Len(logs) < MaxFrameLogged
    /\ \/ \E k \in FrameKeys : Subscribe(k, "cbA")
       \/ \E w \in FrameWrites : Set(w[1], w[2])
    /\ UNCHANGED calls

SpecFrame == Init /\ [][NextFrame]_vars

(* The logger: direct calls and calls made by the store and the monitor,    *)
(* after a session that has logged nothing, nearly a full history, or more  *)

Levels == <<"DEBUG", "INFO", "WARN", "ERROR">>

\* the entries of n earlier calls: logger.<level>(`${i}`)
Earlier(n) == [i \in 1..n |-> LogEntry(Levels[(i % 4) + 1], ToString(i), ROOT)]

\* the history lg after entries a..b have been logged in order
\* (by halves, the first half computed before the second is begun, which
\*  keeps the evaluation shallow)
RECURSIVE Replay(_, _, _, _)
Replay(lg, entries, a, b) ==
    IF a > b THEN lg
    ELSE IF a = b THEN addToHistory(lg, entries[a])
    ELSE LET mid == (a + b) \div 2
             half == Replay(lg, entries, a, mid)
         IN IF Len(half) >= 0 THEN Replay(half, entries, mid + 1, b) ELSE half

EarlierCalls == {0, maxLogs - 3, maxLogs + 47}

InitLog ==
    /\ InitStore
    /\ \E n \in EarlierCalls :
          /\ logged = <<LogEntry("DEBUG", "StateManager initialized", ROOT)>> \o Earlier(n)
          /\ logs = Replay(<<>>, logged, 1, Len(logged))
    /\ held = NoArray
    /\ calls = 0
    /\ isSupported = TRUE
    /\ InitMonitor
    /\ InitNavigation
    /\ InitAudio
    /\ app = NoApp

NextLog ==
    /\ calls < MaxLogCalls
    /\ calls' = calls + 1
    /\ \/ \E m \in Messages : Debug(m)
       \/ \E m \in Messages : Info(m)
       \/ \E m \in Messages : Warn(m)
       \/ \E m \in Messages : Error(m)
       \/ Clear
       \/ \E v \in ObsValues : Set(ObsKey, v)
       \/ StartMeasure("init")
       \/ \E d \in Durations : EndMeasure("init", d)

SpecLog == InitLog /\ [][NextLog]_vars

(* A caller of getLogs() and what it does to the array *)

NextCopy ==
    /\ calls < MaxCopyCalls
    /\ calls' = calls + 1
    /\ \/ \E m \in Messages : Info(m)
       \/ \E m \in Messages : Error(m)
       \/ Clear
       \/ GetLogs
       \/ CallerPush
       \/ CallerPop
       \/ CallerReverse
       \/ \E j \in 1..MaxCopyCalls : CallerModify(j)

SpecCopy == Init /\ [][NextCopy]_vars

(* A caller of getState() and what it does to the object, between writes   *)
(* to the store                                                             *)

CallerWrites ==
    {<<<<"theme">>, "light">>,
     <<<<"animations">>, NULL>>,
     <<<<"animations", "starsActive">>, "TRUE">>}

NextState ==
    /\ calls < MaxStateCalls
    /\ calls' = calls + 1
    /\ \/ GetState
       \/ \E w \in CallerWrites : CallerAssign(w[1], w[2])
       \/ Set(<<"animations", "portfolio3DActive">>, "TRUE")
       \/ Set(<<"animations">>, "none")
       \/ Set(<<"theme">>, "light")
       \/ Reset

SpecState == Init /\ [][NextState]_vars

(* The monitor, in a browser with and without the Performance API *)

InitPerf ==
    /\ InitStore
    /\ logs = debug(<<>>, "PerformanceMonitor initialized", ROOT)
    /\ logged = logs
    /\ held = NoArray
    /\ calls = 0
    /\ isSupported \in BOOLEAN
    /\ InitMonitor
    /\ InitNavigation
    /\ InitAudio
    /\ app = NoApp

NextPerf ==
    /\ calls < MaxPerfCalls
    /\ calls' = calls + 1
    /\ \/ \E n \in Names : StartMeasure(n)
       \/ \E n \in Names : \E d \in Durations : EndMeasure(n, d)
       \/ \E n \in Names : GetMetrics(n)
       \/ MonitorClear

SpecPerf == InitPerf /\ [][NextPerf]_vars

(* The running application: the page after PortfolioApp.initialize(), the   *)
(* navigation requests of the user and the timers.  A request is made when  *)
(* no timer is pending or right after another request.                     *)

\* the store, the logger and the monitor once initialize() has returned
\* (the registration history follows the observers of the scenarios only)
InitRunning ==
    /\ isSupported = TRUE
    /\ LET lg0 == debug(debug(<<>>, "StateManager initialized", ROOT),
                        "PerformanceMonitor initialized", ROOT)
           p1 == startMeasure([metrics |-> <<>>, marks |-> {}, logs |-> lg0,
                               ret |-> NotFound], "app-initialization")
           p2 == startMeasure([p1 EXCEPT !.logs =
                                  info(@, "Portfolio application initializing...", ROOT)],
                              "managers-init")
           p3 == endMeasure(p2, "managers-init", 1)
           lg3 == debug(debug(debug(p3.logs, "Setting up UI components", ROOT),
                              "Setting up event handlers", ROOT),
                        "Setting up state management", ROOT)
           s0 == [state |-> InitialState, observers |-> <<>>, logs |-> lg3,
                  handles |-> {}, trace |-> <<>>, threw |-> FALSE,
                  audio |-> NewAudioManager(FALSE), copy |-> NoCopy,
                  body |-> {SOUND}]
           s3 == subscribe(subscribe(subscribe(s0, <<"currentView">>, "onView"),
                                     <<"soundEnabled">>, "onSound"),
                           <<"theme">>, "onTheme")
           p4 == endMeasure([p3 EXCEPT !.logs =
                                debug(s3.logs, "Setting up animations", ROOT)],
                            "app-initialization", 2)
           s4 == set([s3 EXCEPT !.logs =
                         info(p4.logs, "Portfolio application initialized successfully", ROOT)],
                     <<"isLoading">>, "FALSE")
       IN /\ state = s4.state
          /\ observers = s4.observers
          /\ logs = s4.logs
          /\ logged = s4.logs
          /\ handles = {}
          /\ trace = <<>>
          /\ reg = RegInit
          /\ copy = NoCopy
          /\ audioManager = s4.audio
          /\ playback = NoPlayback
          /\ body = s4.body
          /\ last = [op |-> "new", key |-> ROOT, value |-> UNDEF, entries |-> NoEntries,
                     threw |-> FALSE, ret |-> UNDEF,
                     pre |-> s4.state, preObservers |-> s4.observers, preLogs |-> s4.logs,
                     preReg |-> RegInit]
          /\ metrics = p4.metrics
          /\ marks = p4.marks
          /\ cycles = [open |-> {}, done |-> p4.metrics]
          /\ perf = [op |-> "new", name |-> "", ret |-> NotFound,
                     preMetrics |-> p4.metrics, preLogs |-> s4.logs,
                     preCycles |-> [open |-> {}, done |-> p4.metrics]]
    /\ held = NoArray
    /\ calls = 0
    /\ InitPage
    /\ app = [phase |-> "initialized", banner |-> "none", runs |-> 1,
              wired |-> TRUE, threw |-> FALSE, load |-> "listening",
              starAnimationManager |-> OBJ]

InitApp ==
    /\ InitRunning
    /\ present = Elements

NextNav ==
    \/ /\ calls < MaxNavCalls
       /\ timers = <<>> \/ nav.fired = 0
       /\ calls' = calls + 1
       /\ \/ OpenPortfolio
          \/ BackToHome
          \/ \E item \in 1..NumProjects : OpenPortfolioItem(item)
          \/ BackToPortfolio
          \/ NavigateToPreviousProject
          \/ NavigateToNextProject
    \/ /\ Timeout
       /\ UNCHANGED calls

SpecNav == InitApp /\ [][NextNav]_vars

(* Sound: the store written by a caller, the toggle clicked, and            *)
(* transitions with their cues.                                             *)

SoundKey == <<"soundEnabled">>

NextSound ==
    \/ /\ calls < MaxSoundCalls
       /\ calls' = calls + 1
       /\ \/ \E v \in {"TRUE", "FALSE"} : Set(SoundKey, v)
          \/ ToggleSound
          \/ OpenPortfolio
          \/ BackToHome
    \/ /\ Timeout
       /\ UNCHANGED calls

SpecSound == InitApp /\ [][NextSound]_vars

(* The theme written to the store, the sound toggled and the page loaded    *)

ThemeKey == <<"theme">>
Themes == {"dark", "light"}

NextTheme ==
    /\ calls < MaxThemeCalls
    /\ calls' = calls + 1
    /\ \/ \E v \in Themes : Set(ThemeKey, v)
       \/ ToggleSound
       \/ WindowLoad

SpecTheme == InitApp /\ [][NextTheme]_vars

(* Requests at any moment: before, between and after the delayed actions   *)
(* of the requests made earlier.                                            *)

NextAny ==
    \/ /\ calls < MaxAnyCalls
       /\ calls' = calls + 1
       /\ \/ OpenPortfolio
          \/ BackToHome
          \/ \E item \in 1..NumProjects : OpenPortfolioItem(item)
          \/ BackToPortfolio
          \/ NavigateToPreviousProject
          \/ NavigateToNextProject
    \/ /\ Timeout
       /\ UNCHANGED calls

SpecAny == InitApp /\ [][NextAny]_vars

(* Requests in and out of the projects, one at a time: a request is made    *)
(* once every delayed action of the one before has fired.                   *)

NextSerial ==
    \/ /\ calls < MaxSerialCalls
       /\ timers = <<>>
       /\ calls' = calls + 1
       /\ \/ \E item \in 1..NumProjects : OpenPortfolioItem(item)
          \/ BackToPortfolio
          \/ NavigateToPreviousProject
          \/ NavigateToNextProject
    \/ /\ Timeout
       /\ UNCHANGED calls

SpecSerial == InitApp /\ [][NextSerial]_vars

(* Pages that lack some of the elements the navigation looks up: any set   *)
(* of the home, grid, layer and article elements is missing when the        *)
(* application starts.  One transition is requested at a time.              *)

InitAbsent ==
    /\ InitRunning
    /\ present \in SUBSET Elements

NextAbsent ==
    \/ /\ calls < MaxAbsentCalls
       /\ timers = <<>>
       /\ calls' = calls + 1
       /\ \/ OpenPortfolio
          \/ BackToHome
          \/ \E item \in 1..NumProjects : OpenPortfolioItem(item)
          \/ BackToPortfolio
          \/ NavigateToPreviousProject
          \/ NavigateToNextProject
    \/ /\ Timeout
       /\ UNCHANGED calls

SpecAbsent == InitAbsent /\ [][NextAbsent]_vars

(* The page from the moment its scripts are loaded: DOMContentLoaded with   *)
(* any one step of initialize() failing or none, then the requests of the   *)
(* user, where the click handlers were installed, and the timers.           *)

NoAudioManager == [enabled |-> UNDEF, isMobile |-> FALSE, sounds |-> <<>>]

InitBoot ==
    /\ InitStore
    /\ logs = debug(debug(<<>>, "StateManager initialized", ROOT),
                    "PerformanceMonitor initialized", ROOT)
    /\ logged = logs
    /\ held = NoArray
    /\ calls = 0
    /\ isSupported = TRUE
    /\ InitMonitor
    /\ InitNavigation
    /\ audioManager = NoAudioManager
    /\ playback = NoPlayback
    /\ body = {}
    /\ app = [NoApp EXCEPT !.phase = "loading"]

NextBoot ==
    \/ /\ \E failing \in 0..Len(Steps) : DOMContentLoaded(failing)
       /\ UNCHANGED calls
    \/ /\ calls < MaxBootCalls
       /\ app.wired
       /\ calls' = calls + 1
       /\ \/ OpenPortfolio
          \/ \E item \in 1..NumProjects : OpenPortfolioItem(item)
          \/ NavigateToNextProject
    \/ RunTimer

SpecBoot == InitBoot /\ [][NextBoot]_vars /\ WF_vars(RunTimer)

(* The same with callbacks that may raise.  The event loop runs every      *)
(* timer that is due: the firing of timers is weakly fair.                  *)

NextFire ==
    \/ /\ calls < MaxFireCalls
       /\ timers = <<>> \/ nav.fired = 0
       /\ calls' = calls + 1
       /\ \/ OpenPortfolio
          \/ \E item \in 1..NumProjects : OpenPortfolioItem(item)
          \/ BackToPortfolio
          \/ NavigateToNextProject
    \/ RunTimer

SpecFire == InitApp /\ [][NextFire]_vars /\ WF_vars(RunTimer)

-----------------------------------------------------------------------------
(* What the last operation did *)

CallIdx == {i \in 1..Len(trace) : trace[i].kind = "call"}
CallsTo(key, cb) == {i \in CallIdx : trace[i].key = key /\ trace[i].cb = cb}
Calls == SelectSeq(trace, LAMBDA e : e.kind = "call")
CalledCbs == [i \in 1..Len(Calls) |-> Calls[i].cb]

\* callbacks registered on key when the last operation began
RegisteredBefore(key) == {cb \in Callbacks : last.preReg.count[<<key, cb>>] > 0}

\* cb had its unsubscribe function called during the last operation without
\* having been called in it: it was removed before the iteration reached it
RemovedBeforeTurn(key, cb) ==
    /\ CallsTo(key, cb) = {}
    /\ \E i \in 1..Len(trace) :
          trace[i].kind = "unsubscribe" /\ trace[i].key = key /\ trace[i].cb = cb

\* the i-th event is a call that ended by throwing
ThrewAt(i) ==
    /\ i \in CallIdx
    /\ \/ Throws(trace[i].cb)
       \/ trace[i].cb = "cbU" /\ UnsubTarget \notin handles

Position(seq, x) == CHOOSE i \in 1..Len(seq) : seq[i] = x

ErrorsIn(lg) == Cardinality({i \in 1..Len(lg) : lg[i].level = "ERROR"})

\* the last operation was a set of a present key that changed its value
ChangingSet ==
    /\ last.op = "set"
    /\ ~last.threw
    /\ last.key \in DOMAIN last.pre
    /\ last.pre[last.key] # last.value

-----------------------------------------------------------------------------
(* C1.  For a path p that holds v1 and has observers: set(p, v2) with       *)
(* v2 # v1 calls each observer exactly once, with (v2, v1); set(p, v1)      *)
(* calls no observer and leaves the stored value as it was.                 *)
C1_SetNotifiesOncePerChange ==
    (last.op = "set" /\ last.key \in DOMAIN last.pre) =>
        \A cb \in RegisteredBefore(last.key) :
            IF last.pre[last.key] # last.value
            THEN /\ Cardinality(CallsTo(last.key, cb)) = 1
                 /\ \A i \in CallsTo(last.key, cb) :
                       /\ trace[i].newValue = last.value
                       /\ trace[i].oldValue = last.pre[last.key]
            ELSE /\ CallIdx = {}
                 /\ state = last.pre

C1_Witness ==
    /\ last.op = "set"
    /\ last.key = <<"animations", "starsActive">>
    /\ "cbA" \in RegisteredBefore(last.key)
    /\ last.pre[last.key] = "TRUE"
    /\ last.value = "FALSE"
    /\ Len(Calls) = 1

(* C2.  Once the unsubscribe function of (p, cb) has been called, cb is not *)
(* called for p again (until it is subscribed again), also when the call    *)
(* came from another observer earlier in the same cycle; the observers      *)
(* that stay registered on p are all called by a value-changing set(p).     *)
C2_UnsubscribedIsNotCalled ==
    /\ \A i \in CallIdx :
          <<trace[i].key, trace[i].cb>> \notin RegAfter(last.preReg, trace, i - 1).gone
    /\ ChangingSet =>
          \A cb \in Callbacks :
              reg.count[<<last.key, cb>>] > 0 => CallsTo(last.key, cb) # {}

\* cbU, registered before cbA, unsubscribed it in mid-cycle: cbA was not
\* called, cbT behind it was
C2_Witness ==
    /\ ChangingSet
    /\ last.preReg.order[last.key] = <<"cbU", "cbA", "cbT">>
    /\ RemovedBeforeTurn(last.key, "cbA")
    /\ CalledCbs = <<"cbU", "cbT">>

C4_AllRegisteredAtTheCall ==
    ChangingSet => CalledCbs = last.preReg.order[last.key]

(* C4, amended.  A value-changing set(p, v) calls, before it returns, every *)
(* observer registered on p when set is called except those that an        *)
(* observer called earlier in the same cycle unsubscribed before their     *)
(* turn; each is called once, in the order in which the registrations      *)
(* were made.                                                               *)
C4_AllObserversInRegistrationOrder ==
    ChangingSet =>
        CalledCbs = SelectSeq(last.preReg.order[last.key],
                              LAMBDA cb : ~RemovedBeforeTurn(last.key, cb))

C4_Witness ==
    /\ ChangingSet
    /\ last.preReg.order[last.key] = <<"cbT", "cbU", "cbA">>
    /\ CalledCbs = <<"cbT", "cbU">>

(* C10.  A callback subscribed twice or more under a key is called at most  *)
(* once by a value-changing set of that key, at the place of its first      *)
(* registration: behind every observer registered before it and ahead of    *)
(* every one registered after it.                                           *)
C10_DuplicateSubscribeIsIdempotent ==
    ChangingSet =>
        \A cb \in Callbacks :
            last.preReg.count[<<last.key, cb>>] = 2 =>
                /\ Cardinality(CallsTo(last.key, cb)) <= 1
                /\ LET order == last.preReg.order[last.key]
                   IN \A i \in CallsTo(last.key, cb), j \in CallIdx :
                         j # i =>
                            (j < i <=> Position(order, trace[j].cb) < Position(order, cb))

C10_Witness ==
    /\ ChangingSet
    /\ last.preReg.count[<<last.key, "cbA">>] = 2
    /\ last.preReg.order[last.key] = <<"cbA", "cbT">>
    /\ CalledCbs = <<"cbA", "cbT">>

-----------------------------------------------------------------------------
\* every segment before the last is absent (no own property) or a container
IntermediatesOpen(st, key) ==
    \A n \in 1..(Len(key) - 1) :
        LET q == SubSeq(key, 1, n)
        IN q \notin DOMAIN st \/ st[q] = OBJ

\* some segment of the path is absent
HasAbsentSegment(st, key) ==
    \E n \in 1..Len(key) : SubSeq(key, 1, n) \notin DOMAIN st

(* C5.  No get(p) and no set(p, v) raises an error, whatever p and the      *)
(* store hold, also when a segment before the last holds a scalar or null.  *)
C5_GetAndSetNeverThrow ==
    last.op \in {"get", "set"} => ~last.threw

(* C6.  When every segment of p before the last is absent or a container,   *)
(* get(p) after set(p, v) returns v, the missing containers having been     *)
(* created; get(q) of a path with an absent segment returns undefined and   *)
(* leaves the state as it was.                                              *)
C6_SetThenGet ==
    /\ (last.op = "set" /\ IntermediatesOpen(last.pre, last.key)) =>
          /\ ~last.threw
          /\ get(state, last.key) = last.value
          /\ last.value # UNDEF =>
                \A n \in 1..(Len(last.key) - 1) : state[SubSeq(last.key, 1, n)] = OBJ
    /\ (last.op = "get" /\ HasAbsentSegment(last.pre, last.key)) =>
          /\ last.ret = UNDEF
          /\ state = last.pre

C6_Witness ==
    /\ last.op = "set"
    /\ last.key = <<"newObject", "newKey", "deep">>
    /\ <<"newObject">> \notin DOMAIN last.pre
    /\ get(state, last.key) = "home"
    /\ state[<<"newObject", "newKey">>] = OBJ

\* the place of key among the entries of the last update
EntryOf(key) == CHOOSE j \in 1..Len(last.entries) : last.entries[j][1] = key

(* C7.  update(map) writes the entries one after the other in iteration     *)
(* order: every key ends at its new value, each key whose value changed     *)
(* calls its observers once with (new, old), and an observer called for     *)
(* key k finds every earlier key of the map at its new value and every      *)
(* later key at its old value.  (The maps have distinct keys, none a        *)
(* prefix of another.)                                                      *)
C7_UpdateIsSequentialSets ==
    last.op = "update" =>
        LET es == last.entries
        IN /\ ~last.threw
           /\ \A j \in 1..Len(es) : get(state, es[j][1]) = es[j][2]
           /\ \A j \in 1..Len(es) : \A cb \in RegisteredBefore(es[j][1]) :
                 IF get(last.pre, es[j][1]) # es[j][2]
                 THEN /\ Cardinality(CallsTo(es[j][1], cb)) = 1
                      /\ \A i \in CallsTo(es[j][1], cb) :
                            /\ trace[i].newValue = es[j][2]
                            /\ trace[i].oldValue = get(last.pre, es[j][1])
                 ELSE CallsTo(es[j][1], cb) = {}
           /\ \A i \in CallIdx :
                 /\ \E j \in 1..Len(es) : es[j][1] = trace[i].key
                 /\ \A m \in 1..Len(es) :
                       get(trace[i].snap, es[m][1]) =
                           IF m <= EntryOf(trace[i].key)
                           THEN es[m][2]
                           ELSE get(last.pre, es[m][1])
           /\ \A i, k \in CallIdx :
                 i < k => EntryOf(trace[i].key) <= EntryOf(trace[k].key)

\* the observer of currentView ran while isLoading, a later key of the map,
\* still held its old value
C7_Witness ==
    /\ last.op = "update"
    /\ last.entries = << <<<<"currentView">>, "portfolio">>, <<<<"isLoading">>, "FALSE">> >>
    /\ Len(Calls) = 2
    /\ Calls[1].key = <<"currentView">>
    /\ Calls[1].snap[<<"isLoading">>] = "TRUE"
    /\ Calls[1].snap[<<"currentView">>] = "portfolio"
    /\ Calls[2].key = <<"isLoading">>
    /\ state[<<"isLoading">>] = "FALSE"

(* C8.  After any sets and updates, reset() leaves currentView = home,      *)
(* soundEnabled = true, theme = dark, isLoading = false,                    *)
(* currentProjectIndex = 0 and calls no observer, also not those of keys    *)
(* whose value the reset changed.                                           *)
C8_ResetRestoresAndIsSilent ==
    last.op = "reset" =>
        /\ get(state, <<"currentView">>) = "home"
        /\ get(state, <<"soundEnabled">>) = "TRUE"
        /\ get(state, <<"theme">>) = "dark"
        /\ get(state, <<"isLoading">>) = "FALSE"
        /\ get(state, <<"currentProjectIndex">>) = "0"
        /\ CallIdx = {}

C8_Witness ==
    /\ last.op = "reset"
    /\ "cbA" \in RegisteredBefore(<<"currentView">>)
    /\ last.pre[<<"currentView">>] = "portfolio"
    /\ <<"newObject", "newKey">> \in DOMAIN last.pre
    /\ state[<<"currentView">>] = "home"
    /\ CallIdx = {}

(* C9.  After reset() every field of the state, isLoading and the           *)
(* animations record included, has the value the constructor gave it.       *)
C9_ResetRestoresConstructorState ==
    last.op = "reset" => state = InitialState

-----------------------------------------------------------------------------
(* The log history *)

\* C11: in every reachable state, whatever debug, info, warn, error and
\* clear calls were made, directly or by an operation of the store or of the
\* monitor, the history holds at most maxLogs (100) entries.
C11_HistoryWithinCapacity ==
    Len(logs) <= maxLogs

\* more than maxLogs entries were logged, the last one by the store, and the
\* history is full
C11_Witness ==
    /\ calls > 0
    /\ Len(logged) > maxLogs
    /\ Len(logs) = maxLogs
    /\ last.op = "set"
    /\ logs[Len(logs)].message = "State updated: "

\* C12: after n log calls since the last clear, the history is exactly the
\* last min(n, maxLogs) entries logged, in the order they were logged; so
\* after maxLogs + 50 calls the 50 oldest are gone and the newest 100 remain.
C12_HistoryIsTheLastEntriesLogged ==
    LET n == Len(logged)
        kept == IF n < maxLogs THEN n ELSE maxLogs
    IN logs = SubSeq(logged, n - kept + 1, n)

\* the call that has just been made is number maxLogs + 50 since the last clear
C12_Witness ==
    /\ calls > 0
    /\ Len(logged) = maxLogs + 50
    /\ logs[1] = logged[51]
    /\ logs[1] # logged[1]

\* C13: getLogs() returns a defensive copy: whatever a caller does to the
\* array it got (adding, removing or reordering entries, or writing a field
\* of an entry in it), a later getLogs() or getLogsByLevel() returns what it
\* would have returned without the change.
C13_CallerChangesAreInvisible ==
    held.change # "none" =>
        /\ getLogs(logs) = getLogs(held.pre)
        /\ \A i \in 1..Len(Levels) :
              getLogsByLevel(logs, Levels[i]) = getLogsByLevel(held.pre, Levels[i])

-----------------------------------------------------------------------------
(* The performance monitor *)

\* the last operation was an endMeasure of a name with no startMeasure pending
UnmatchedEnd ==
    /\ perf.op = "endMeasure"
    /\ perf.name \notin perf.preCycles.open

\* C14 as stated: endMeasure(name) with no pending startMeasure(name) (never
\* started, already ended, or cleared) returns not-found, does not raise,
\* records a WARN log entry and leaves the recorded durations of every name
\* unchanged.
C14_UnmatchedEndWarns ==
    UnmatchedEnd =>
        /\ perf.ret = NotFound
        /\ logs = Append(perf.preLogs,
                         LogEntry("WARN", "No start mark found for: ", <<perf.name>>))
        /\ metrics = perf.preMetrics

\* C14, amended: the same where the browser has the Performance API; where
\* it has not, endMeasure returns not-found, logs nothing and leaves the
\* recorded durations unchanged, whether or not a startMeasure is pending.
C14_UnmatchedEndWarnsWhereSupported ==
    /\ (UnmatchedEnd /\ isSupported) =>
           /\ perf.ret = NotFound
           /\ logs = Append(perf.preLogs,
                            LogEntry("WARN", "No start mark found for: ", <<perf.name>>))
           /\ metrics = perf.preMetrics
    /\ (perf.op = "endMeasure" /\ ~isSupported) =>
           /\ perf.ret = NotFound
           /\ logs = perf.preLogs
           /\ metrics = perf.preMetrics

\* an endMeasure of a name whose cycle had already ended and been recorded,
\* while another name is being measured
C14_Witness ==
    /\ UnmatchedEnd
    /\ isSupported
    /\ perf.name \in DOMAIN perf.preMetrics
    /\ perf.preCycles.open # {}

DoneCycles(name) ==
    IF name \in DOMAIN cycles.done THEN cycles.done[name] ELSE <<>>

\* what getMetrics(name) has to return for the cycles completed
Summarises(m, name) ==
    LET done == DoneCycles(name)
    IN IF done = <<>> THEN m = NotFound
       ELSE /\ m # NotFound
            /\ m[1].count = Len(done)
            /\ m[1].total = Sum(done)
            /\ \E i \in 1..Len(done) : m[1].min = done[i]
            /\ \A i \in 1..Len(done) : m[1].min <= done[i]
            /\ \E i \in 1..Len(done) : m[1].max = done[i]
            /\ \A i \in 1..Len(done) : m[1].max >= done[i]
            /\ m[1].average.num * m[1].count = m[1].total * m[1].average.den
            /\ m[1].average.den # 0

-----------------------------------------------------------------------------
(* Navigation *)

\* the last request was a next or previous request whose target index has
\* no article
NoSuchProject ==
    /\ nav.op \in {"next", "previous"}
    /\ ArticleAt(nav.arg) = NoElement

\* C16: a next or previous request whose target index has no project
\* article leaves the tracked index unchanged, schedules no delayed action
\* and changes no class of any element, now or later: the timers that fire
\* after it are those that were pending before it.
C16_MissingTargetIsIgnored ==
    NoSuchProject =>
        /\ currentProjectIndex = nav.preIndex
        /\ Len(timers) + nav.fired = Len(nav.preTimers)
        /\ nav.fired = 0 => (timers = nav.preTimers /\ classes = nav.preClasses)

\* next was asked on the last project right after it was opened
C16_Witness ==
    /\ NoSuchProject
    /\ nav.op = "next"
    /\ nav.preIndex = NumProjects
    /\ nav.fired = 0
    /\ nav.preTimers # <<>>

\* the last request was open-portfolio, made with no navigation in flight,
\* and all its delayed actions have fired
OpenedPortfolio ==
    /\ nav.op = "openPortfolio"
    /\ nav.idle
    /\ timers = <<>>

\* C17: starting from currentView = home, the open-portfolio action results,
\* once all its delays have elapsed, in the store's currentView being
\* portfolio and in every currentView observer having been invoked exactly
\* once, with (portfolio, home).
C17_OpenPortfolioSetsCurrentView ==
    (OpenedPortfolio /\ nav.preView = "home") =>
        /\ ValAt(state, <<"currentView">>) = "portfolio"
        /\ \A j \in 1..Len(observers[<<"currentView">>]) :
              LET cb == observers[<<"currentView">>][j]
              IN /\ Cardinality(CallsTo(<<"currentView">>, cb)) = 1
                 /\ \A i \in CallsTo(<<"currentView">>, cb) :
                       trace[i].newValue = "portfolio" /\ trace[i].oldValue = "home"

\* C18: starting from the home view with no other navigation in flight,
\* once all delayed actions of open-portfolio have fired the grid region
\* bears the active class and the home region does not.
C18_OpenPortfolioShowsGrid ==
    (OpenedPortfolio /\ ACTIVE \in nav.preClasses[Home]) =>
        /\ ACTIVE \in classes[PortfolioGrid]
        /\ ACTIVE \notin classes[Home]

\* open-portfolio from the home view, all four timers fired
C18_Witness ==
    /\ OpenedPortfolio
    /\ nav.fired = 4
    /\ ACTIVE \in nav.preClasses[Home]
    /\ ACTIVE \notin nav.preClasses[PortfolioGrid]

\* C19: selecting the grid item at position i (from 1), with no other
\* navigation in flight, sets the tracked index to i at the moment of the
\* request and, once its delayed actions have fired, leaves article i
\* bearing the active class and the grid region not bearing it.
C19_OpenItemShowsProject ==
    (nav.op = "openPortfolioItem" /\ nav.idle) =>
        /\ currentProjectIndex = nav.arg
        /\ timers = <<>> =>
              /\ ACTIVE \in classes[Article(nav.arg)]
              /\ ACTIVE \notin classes[PortfolioGrid]

\* the second item was selected in the grid view, and its timers have fired
C19_Witness ==
    /\ nav.op = "openPortfolioItem"
    /\ nav.idle
    /\ nav.arg = 2
    /\ nav.preIndex # 2
    /\ ACTIVE \in nav.preClasses[PortfolioGrid]
    /\ timers = <<>>

\* the last two requests were next requests with both targets on the page,
\* and no timer has fired since the first of them
NextTwice ==
    /\ nav.op = "next"
    /\ nav.prev.op = "next"
    /\ nav.prev.fired = 0
    /\ nav.fired = 0
    /\ ArticleAt(nav.prev.preIndex + 1) # NoElement
    /\ ArticleAt(nav.prev.preIndex + 2) # NoElement

\* C20: the tracked index is updated when a transition is initiated, before
\* any of its delayed actions fires: after two next requests back-to-back
\* from index i, with articles i+1 and i+2 on the page, the tracked index
\* is i+2 and the target of the second request was (i+1)+1.
C20_IndexIsUpdatedAtInitiation ==
    /\ (nav.op \in {"next", "previous"} /\ ArticleAt(nav.arg) # NoElement /\ nav.fired = 0) =>
           /\ currentProjectIndex = nav.arg
           /\ Len(timers) = Len(nav.preTimers) + 4
    /\ NextTwice =>
           /\ nav.arg = (nav.prev.preIndex + 1) + 1
           /\ currentProjectIndex = nav.prev.preIndex + 2

\* two next requests right after the first project was opened
C20_Witness ==
    /\ NextTwice
    /\ nav.prev.preIndex = 1
    /\ currentProjectIndex = 3
    /\ Len(timers) = 12

-----------------------------------------------------------------------------
(* Delayed actions *)

\* the number of pending timers set by the last request
PendingOfLast ==
    Cardinality({i \in 1..Len(timers) : timers[i].request = nav.request})

\* each transition made once on a page in its first view, for one input
ReferencePage == [index |-> 1, timers |-> <<>>, classes |-> InitialClasses, request |-> 0]

ReferenceRun(op) ==
    CASE op = "openPortfolio" -> openPortfolio(ReferencePage).timers
      [] op = "backToHome" -> backToHome(ReferencePage).timers
      [] op = "openPortfolioItem" -> openPortfolioItem(ReferencePage, 1).timers
      [] op = "backToPortfolio" -> backToPortfolio(ReferencePage).timers
      [] op = "next" -> navigateToNextProject(ReferencePage).timers
      [] op = "previous" ->
           navigateToPreviousProject([ReferencePage EXCEPT !.index = 2]).timers
      [] OTHER -> <<>>

\* the timers of tm by ascending delay
ByDelay(tm) ==
    [k \in 1..Len(tm) |->
        tm[CHOOSE i \in 1..Len(tm) :
              Cardinality({j \in 1..Len(tm) : tm[j].delay < tm[i].delay}) = k - 1]]

\* C21: the delayed actions of a transition fire in ascending order of
\* their configured delays, each at its delay after the request, whatever
\* the order of their registration; the order of the steps is that of the
\* same transition on any other input (item or index), and the last action
\* fires PAPER_SOUND_DELAY after the request.
C21_ActionsFireInDelayOrder ==
    LET fires == nav.fires
        order == ByDelay(ReferenceRun(nav.op))
    IN (Len(fires) + PendingOfLast > 0) =>
          /\ Len(fires) + PendingOfLast = Len(order)
          /\ \A k \in 1..Len(fires) :
                /\ fires[k].step = order[k].callback.step
                /\ fires[k].delay = order[k].delay
                /\ fires[k].at = fires[k].delay
                /\ \A j \in 1..(k - 1) : fires[j].delay < fires[k].delay
          /\ PendingOfLast = 0 => fires[Len(fires)].at = PAPER_SOUND_DELAY

\* back-to-portfolio, which registers the later action first, has run to
\* its end while timers of an earlier request were pending
C21_Witness ==
    /\ nav.op = "backToPortfolio"
    /\ ~nav.idle
    /\ PendingOfLast = 0
    /\ [k \in 1..Len(nav.fires) |-> nav.fires[k].step] = <<2, 1, 3>>

\* how many times x occurs in seq
Count(seq, x) == Cardinality({i \in 1..Len(seq) : seq[i] = x})

\* how many pending timers hold the delayed action id = <<request, step>>
Pending(id) ==
    Cardinality({i \in 1..Len(timers) :
                    <<timers[i].request, timers[i].callback.step>> = id})

\* every delayed action registered so far has run once and none is pending
AllRan ==
    \A id \in schedule.set : Count(schedule.ran, id) = 1 /\ Pending(id) = 0

\* C22: a delayed action, once registered, is either pending or has run
\* once, never both and never neither (nothing cancels it), and it
\* eventually runs: again and again every action registered so far has run
\* once, also when a later transition is initiated before it fires and when
\* an earlier action of its transition raised an error.
C22_EveryActionRunsOnce ==
    /\ [](\A id \in schedule.set : Count(schedule.ran, id) + Pending(id) = 1)
    /\ []<>AllRan

\* an action of the first transition has run after an earlier action of the
\* same transition raised, a second transition having been initiated while
\* both were pending
C22_Witness ==
    \E p, q \in 1..Len(schedule.ran) :
        /\ p < q
        /\ schedule.ran[p][1] = 1
        /\ schedule.ran[q][1] = 1
        /\ schedule.ran[p] \in schedule.raised
        /\ schedule.ran[q] \notin schedule.raised
        /\ nav.request = 2
        /\ \E i \in 1..Len(nav.preTimers) :
              <<nav.preTimers[i].request, nav.preTimers[i].callback.step>> = schedule.ran[p]

\* the articles that bear the active class in cls
ActiveArticles(cls) == {a \in Articles : ACTIVE \in cls[a]}

\* a project was shown alone and no timer was pending; a next or previous
\* request led to another project, and before any of its delayed actions
\* fired a second next or previous request was made, its target on the page
SecondBeforeFirstFired ==
    /\ nav.op \in {"next", "previous"}
    /\ nav.prev.op \in {"next", "previous"}
    /\ nav.prev.fired = 0
    /\ Len(nav.preTimers) = 4
    /\ \A i \in 1..Len(nav.preTimers) : nav.preTimers[i].request = nav.request - 1
    /\ ArticleAt(nav.arg) # NoElement
    /\ ActiveArticles(nav.preClasses) = {Article(nav.prev.preIndex)}

\* the current project that the last request handed to its first callback
CurrentOfLast ==
    LET i == CHOOSE i \in 1..Len(timers) :
                 timers[i].request = nav.request /\ timers[i].callback.step = 1
    IN timers[i].callback.currentProject

\* C23: when a second next or previous request is made before the delayed
\* actions of the first have fired, the second takes as its current
\* project the article at the index the first has already written, which
\* does not bear the active class (the article the first started from still
\* does); its deactivation step runs on that article, and once all timers
\* have fired the article of the intermediate index and the target article
\* both bear the active class.
C23_SecondRequestStartsFromUpdatedIndex ==
    SecondBeforeFirstFired =>
        /\ nav.preIndex # nav.prev.preIndex
        /\ nav.fired = 0 =>
              /\ CurrentOfLast = Article(nav.preIndex)
              /\ CurrentOfLast \notin ActiveArticles(classes)
              /\ ActiveArticles(classes) = {Article(nav.prev.preIndex)}
        /\ timers = <<>> =>
              /\ Article(nav.preIndex) \in ActiveArticles(classes)
              /\ Article(nav.arg) \in ActiveArticles(classes)

\* two next requests in a row from the first project: all timers have fired
\* and projects 2 and 3 are both active
C23_Witness ==
    /\ SecondBeforeFirstFired
    /\ nav.op = "next"
    /\ nav.prev.op = "next"
    /\ nav.prev.preIndex = 1
    /\ timers = <<>>
    /\ ActiveArticles(classes) = {Article(2), Article(3)}

-----------------------------------------------------------------------------
(* Initialization *)

\* the timer that removes the banner is pending
BannerPending ==
    \E i \in 1..Len(timers) :
        /\ timers[i].callback.method = "handleInitializationError"
        /\ timers[i].delay = BANNER_DELAY

\* C24: when a constructor or a setup step throws during initialize(), the
\* call returns normally, the history holds an ERROR entry, the banner has
\* been attached and stays until its 5 s timer fires, which it eventually
\* does, and initialize() has run once.
C24_InitializationFailureIsContained ==
    /\ [](app.phase = "failed" =>
             /\ ~app.threw
             /\ getLogsByLevel(logs, "ERROR") # <<>>
             /\ app.banner \in {"shown", "removed"}
             /\ app.banner = "shown" <=> BannerPending
             /\ app.runs = 1)
    /\ (app.phase = "failed") ~> (app.banner = "removed")

\* the UIManager constructor threw, the banner has been shown and removed
C24_Witness ==
    /\ app.phase = "failed"
    /\ app.banner = "removed"
    /\ ~app.wired
    /\ "managers-init" \in marks
    /\ state[<<"isLoading">>] = "TRUE"

-----------------------------------------------------------------------------
(* Sound *)

\* every preloaded clip is muted exactly if enabled is falsy
ClipsFollow(a, enabled) ==
    \A k \in DOMAIN a.sounds : a.sounds[k].muted = ~Truthy(enabled)

\* C25: with the subscriptions of the controller in place, a set of
\* soundEnabled that changes the value leaves, when it returns, the audio
\* player's enabled flag equal to the new value and every preloaded clip
\* muted exactly if the new value is false.
C25_SoundWriteReachesAudio ==
    [][(/\ last' # last
        /\ last'.op = "set"
        /\ last'.key = SoundKey
        /\ state[SoundKey] # last'.value)
       => (/\ audioManager'.enabled = last'.value
           /\ DOMAIN audioManager'.sounds = AUDIO
           /\ ClipsFollow(audioManager', last'.value))]_vars

\* sound was switched off through the store while the player was on
C25_Witness ==
    /\ last.op = "set"
    /\ last.key = SoundKey
    /\ last.value = "FALSE"
    /\ last.pre[SoundKey] = "TRUE"
    /\ audioManager.enabled = "FALSE"
    /\ ClipsFollow(audioManager, "FALSE")
    /\ Len(trace) = 1

\* C26: clicking the sound toggle updates the store's soundEnabled: the
\* store's soundEnabled equals the audio player's enabled flag after any
\* sequence of toggle clicks.
C26_ToggleKeepsStoreInStep ==
    state[SoundKey] = audioManager.enabled

\* C27: a play request made while the audio player's enabled flag is false
\* starts no playback, the delayed paper cue of a transition included.
C27_NoCueWhileDisabled ==
    playback.started => Truthy(playback.enabled)

\* the paper cue of a transition initiated with sound on came due after
\* sound had been switched off, and was not played
C27_Witness ==
    /\ playback.soundKey = "PAPER"
    /\ ~playback.started
    /\ playback.enabled = "FALSE"
    /\ nav.sound = "TRUE"
    /\ \E k \in 1..Len(nav.fires) : nav.fires[k].delay = PAPER_SOUND_DELAY

-----------------------------------------------------------------------------
(* C28: lookups that find nothing *)

\* the delayed actions that have run on the page without raising
RanQuietly == schedule.raised = {}

\* C28: DOM-lookup failures never raise: whatever set of the home, grid,
\* layer and article elements is missing from the page, every navigation
\* request and every delayed action of it runs to its end without raising,
\* and no class is added to or removed from a missing element; where one of
\* the two layers is missing, switchLayers changes neither.
C28_AbsentElementsNeverRaise ==
    /\ RanQuietly
    /\ \A e \in Elements \ present : classes[e] = InitialClasses[e]
    /\ (\E i \in 1..Len(Layers) : Layers[i] \notin present)
          => \A i \in 1..Len(Layers) : classes[Layers[i]] = InitialClasses[Layers[i]]

\* a page without the grid and without the second layer, on which "back to
\* home" was requested: its three delayed actions have run, the last of
\* them being the one that resets the scroll position of the grid
C28_Witness ==
    /\ PortfolioGrid \notin present
    /\ Layers[2] \notin present
    /\ Home \in present
    /\ nav.op = "backToHome"
    /\ timers = <<>>
    /\ Len(schedule.ran) = 3

-----------------------------------------------------------------------------
(* C29: the object returned by getState() *)

\* C29: getState() returns a copy of the state: whatever a caller assigns
\* to a property of the returned object or to a property of its animations
\* sub-record, every get(path) made afterwards returns what it would have
\* returned without the assignment.
C29_StateCopyIsDetached ==
    copy.change # "none" =>
        \A p \in DOMAIN state \cup DOMAIN copy.pre : get(state, p) = get(copy.pre, p)

-----------------------------------------------------------------------------
(* C30: what a set leaves alone *)

\* the observers the last operation called were registered on its own path
OnlyExactPathNotified == \A i \in CallIdx : trace[i].key = last.key

\* the paths that hold a value before or after the last operation
PathsAround == DOMAIN state \cup DOMAIN last.pre

\* C30: set(p, v) invokes only observers registered on exactly p, not those
\* on a parent or a child path of p, and no value at a path that is neither
\* p nor a prefix of p changes.
C30_SetTouchesOnlyItsPath ==
    last.op = "set" =>
        /\ OnlyExactPathNotified
        /\ \A q \in PathsAround :
              ~IsPrefix(q, last.key) => get(state, q) = get(last.pre, q)

\* C30 (amended): set(p, v) invokes only observers registered on exactly p,
\* not those on a parent or a child path of p, and no value changes at a
\* path that is neither p, nor a prefix of p, nor below p.
C30_SetTouchesOnlyItsPathAndBelow ==
    last.op = "set" =>
        /\ OnlyExactPathNotified
        /\ \A q \in PathsAround :
              ~IsPrefix(q, last.key) /\ ~IsPrefix(last.key, q)
                  => get(state, q) = get(last.pre, q)

\* with observers on animations and on animations.starsActive, the flag was
\* written and its observer called
C30_Witness ==
    /\ last.op = "set"
    /\ last.key = <<"animations", "starsActive">>
    /\ <<"animations">> \in DOMAIN observers
    /\ observers[<<"animations">>] # <<>>
    /\ CallIdx # {}
    /\ state # last.pre

-----------------------------------------------------------------------------
(* Next and previous outside a project *)

\* the last request was next or previous, made while no project was open
\* and no transition was in flight
NextOutsideDetail ==
    /\ nav.op \in {"next", "previous"}
    /\ nav.preIndex = 0
    /\ nav.idle

\* C31: a next or previous request made while no project is open (tracked
\* index 0) leaves the tracked index unchanged, activates no project
\* article and switches no layer.
C31_NextOutsideDetailIsIgnored ==
    NextOutsideDetail =>
        /\ currentProjectIndex = nav.preIndex
        /\ ActiveArticles(classes) = ActiveArticles(nav.preClasses)
        /\ \A i \in 1..Len(Layers) : classes[Layers[i]] = nav.preClasses[Layers[i]]

-----------------------------------------------------------------------------
(* The active project *)

\* the last request led to a project and all its delayed actions have fired
InDetail ==
    /\ \/ nav.op = "openPortfolioItem"
       \/ nav.op \in {"next", "previous"} /\ ~NoSuchProject
    /\ timers = <<>>

\* the last request led back to the grid and all its delayed actions have fired
InGrid ==
    /\ nav.op = "backToPortfolio"
    /\ timers = <<>>

\* C32: with requests made one at a time, after any sequence of open-item,
\* next, previous and back-to-portfolio requests: in a detail view exactly
\* one project article bears the active class, the one at the tracked
\* index, and in the grid view none does.
C32_OneActiveProjectWhenSerialized ==
    /\ InDetail => ActiveArticles(classes) = {Article(currentProjectIndex)}
    /\ InGrid => ActiveArticles(classes) = {}

\* C33: once every delayed action has fired after a back-to-portfolio
\* request, whatever open-item, next and previous requests came before it
\* and whenever they were made, no project article bears the active, the
\* to-top or the to-bottom class.
C33_BackToPortfolioDeactivatesAll ==
    InGrid => \A a \in Articles : classes[a] \cap {ACTIVE, TO_TOP, TO_BOTTOM} = {}

-----------------------------------------------------------------------------
(* The two layers *)

\* the layers that bear class className
LayersWith(className) == {i \in 1..Len(Layers) : className \in classes[Layers[i]]}

\* C34: between timer callbacks and under every interleaving of navigation
\* requests, exactly one of the two layers bears active-layer, the other
\* bears not-active-layer and none bears both, also when a transition
\* switches the layers it looked up before an earlier switch fired.
C34_OneActiveLayer ==
    /\ Cardinality(LayersWith(ACTIVE_LAYER)) = 1
    /\ LayersWith(NOT_ACTIVE_LAYER) = (1..Len(Layers)) \ LayersWith(ACTIVE_LAYER)

\* a project was opened while the opening of the portfolio was in flight,
\* one of its delayed actions fired and its layer switch still pending, so
\* that both requests looked up the same layers; both switches have fired
C34_Witness ==
    /\ nav.op = "openPortfolioItem"
    /\ nav.prev.op = "openPortfolio"
    /\ nav.prev.fired = 1
    /\ ~nav.idle
    /\ timers = <<>>
    /\ LayersWith(ACTIVE_LAYER) = {2}

\* the last two requests were a round trip: op from a settled page and,
\* once all its delayed actions had fired, back, whose delayed actions
\* have all fired too
RoundTrip(op, back) ==
    /\ nav.prev.op = op
    /\ nav.prev.idle
    /\ nav.op = back
    /\ nav.idle
    /\ timers = <<>>

\* the layers bear the same one of active-layer / not-active-layer in cls
SameLayers(cls) ==
    \A i \in 1..Len(Layers) :
        classes[Layers[i]] \cap {ACTIVE_LAYER, NOT_ACTIVE_LAYER}
            = cls[Layers[i]] \cap {ACTIVE_LAYER, NOT_ACTIVE_LAYER}

\* C35: open-portfolio from the home view followed, once its actions have
\* completed, by back-to-home restores the home view: home bears active
\* again, the grid does not, and each layer bears the same one of
\* active-layer / not-active-layer as before the round trip; likewise
\* open-item from the grid view followed by back-to-portfolio: the grid
\* bears active again and the project that was entered does not.
C35_RoundTripRestoresView ==
    /\ (RoundTrip("openPortfolio", "backToHome") /\ ACTIVE \in nav.prev.preClasses[Home])
          => /\ ACTIVE \in classes[Home]
             /\ ACTIVE \notin classes[PortfolioGrid]
             /\ SameLayers(nav.prev.preClasses)
    /\ (RoundTrip("openPortfolioItem", "backToPortfolio")
           /\ ACTIVE \in nav.prev.preClasses[PortfolioGrid]
           /\ ActiveArticles(nav.prev.preClasses) = {})
          => /\ ACTIVE \in classes[PortfolioGrid]
             /\ ACTIVE \notin classes[Article(nav.prev.arg)]
             /\ SameLayers(nav.prev.preClasses)

\* the portfolio was opened, then a project was opened from the grid and
\* left again, one request at a time
C35_Witness ==
    /\ RoundTrip("openPortfolioItem", "backToPortfolio")
    /\ ACTIVE \in nav.prev.preClasses[PortfolioGrid]
    /\ ActiveArticles(nav.prev.preClasses) = {}
    /\ ACTIVE \in classes[PortfolioGrid]

-----------------------------------------------------------------------------
(* Writes made during a notification *)

\* seq without the elements that repeat the one before them
RECURSIVE Dedup(_)
Dedup(seq) ==
    IF Len(seq) < 2 THEN seq
    ELSE LET front == Dedup(SubSeq(seq, 1, Len(seq) - 1))
         IN IF seq[Len(seq)] = seq[Len(seq) - 1] THEN front
            ELSE Append(front, seq[Len(seq)])

\* the calls the last operation made to the observers of key, in order
CallsOn(key) == SelectSeq(trace, LAMBDA e : e.kind = "call" /\ e.key = key)

\* the values successively stored at key during the last operation: each
\* write is followed at once by a call, which finds the value in the state
Committed(key) ==
    LET c == CallsOn(key)
    IN Dedup([i \in 1..Len(c) |-> ValAt(c[i].snap, key)])

\* the newValue arguments the last operation delivered to callback cb
Delivered(key, cb) ==
    LET c == SelectSeq(CallsOn(key), LAMBDA e : e.cb = cb)
    IN [i \in 1..Len(c) |-> c[i].newValue]

\* C36: every observer of a path is told of the writes to it in the order
\* they were committed: the newValue arguments delivered to any one
\* observer during a set are the values successively stored at the path,
\* and the last of them is the value held when the outermost set returns,
\* also when an observer itself calls set on the path.
C36_ObserversSeeCommitOrder ==
    last.op = "set" =>
        \A cb \in {"cbA", "cbS"} :
            Delivered(last.key, cb) # <<>> =>
                /\ Delivered(last.key, cb) = Committed(last.key)
                /\ Delivered(last.key, cb)[Len(Delivered(last.key, cb))]
                      = ValAt(state, last.key)

-----------------------------------------------------------------------------
(* Observers across a reset *)

\* the last operation began right after a reset
AfterReset ==
    /\ last.preLogs # <<>>
    /\ last.preLogs[Len(last.preLogs)].message = "State reset"

\* the last operation called cb on key with these arguments
Notified(key, cb, newValue, oldValue) ==
    \E i \in CallsTo(key, cb) :
        /\ trace[i].newValue = newValue
        /\ trace[i].oldValue = oldValue

\* C37: reset leaves the observer registrations as they are: an observer
\* subscribed before a reset is called by the first set after it that
\* changes the value, with the reset default as oldValue.
C37_ResetKeepsObservers ==
    [][/\ last'.op = "reset" => observers' = observers
       /\ (/\ last.op = "reset"
           /\ last'.op = "set"
           /\ ValAt(state', last'.key) # ValAt(state, last'.key))
          => \A cb \in RegisteredBefore(last'.key) :
                 \E i \in 1..Len(trace') :
                     /\ trace'[i].kind = "call"
                     /\ trace'[i].key = last'.key
                     /\ trace'[i].cb = cb
                     /\ trace'[i].newValue = last'.value
                     /\ trace'[i].oldValue = ValAt(ResetState, last'.key)]_vars

C37_Witness ==
    /\ last.op = "set"
    /\ AfterReset
    /\ last.key = <<"isLoading">>
    /\ last.pre = ResetState
    /\ RegisteredBefore(last.key) = {"cbA"}
    /\ Notified(last.key, "cbA", "TRUE", "FALSE")
    /\ ValAt(state, last.key) = "TRUE"

-----------------------------------------------------------------------------
(* The classes of document.body *)

\* C38: a change of the theme through the store swaps the theme class on
\* document.body and nothing else: the loaded class and the sound class the
\* body bore before the write are on it after the write.
C38_ThemeKeepsBodyClasses ==
    [][(/\ last'.op = "set"
        /\ last'.key = ThemeKey
        /\ ValAt(state', ThemeKey) # ValAt(state, ThemeKey))
       => body' \cap {LOADED, SOUND} = body \cap {LOADED, SOUND}]_vars

-----------------------------------------------------------------------------
(* The start of the star animation *)

StarId == <<StarTimer.request, StarTimer.callback.step>>

\* C39: the start of the star animation, scheduled 500 ms after
\* DOMContentLoaded, runs without raising, where initialize() succeeded and
\* where it failed before the animation managers were constructed.
C39_StarStartNeverRaises == StarId \notin schedule.raised

====
